---------------------------- MODULE Spec2Model ----------------------------
(***************************************************************************)
(* A model of colophon (github.com/dpinela/colophon), the mod manager.     *)
(*                                                                         *)
(*   Spec         the content cache: getModFile / downloadLink working on  *)
(*                the cache directory, against a server and a disk that    *)
(*                may fail;                                                *)
(*   SpecResolve  the name resolver: resolveModName applied to a catalog   *)
(*                of names and a requested string;                         *)
(*   SpecClosure  the dependency walk: TransitiveClosure, one call of      *)
(*                transitiveClosure or one loop iteration per step;        *)
(*   SpecSelect   selectLink applied to a record on a platform;            *)
(*   SpecMerge    Manifest.Merge applied to a record and a patch;          *)
(*   SpecFetch    the four places that fetch a URL, each against a server  *)
(*                that answers with any status;                            *)
(*   SpecInstall  the install command, one loop iteration per step;        *)
(*   SpecPublish  the publish command on a modlinks file;                  *)
(*   SpecModsDir  yeet, removePreviousVersion and extractModZip on the     *)
(*                files of the Mods directory.                             *)
(*                                                                         *)
(* Strings whose characters matter (mod names, requests, regexp sources)   *)
(* are sequences of one-character strings.                                 *)
(***************************************************************************)
EXTENDS Integers, Sequences, FiniteSets, TLC

VARIABLES
    names,          \* resolveModName: ms, the catalog's names in catalog order
    requestedName,  \* resolveModName: the requested string
    resolved,       \* resolveModName: what the call returned
    goos,           \* runtime.GOOS of the build
    cache,          \* the cache directory: file path -> the file there
    last,           \* the last operation on the cache and what it did
    intact,         \* file path -> the mod whose download wrote the file,
                    \* while nothing has written the file since
    walk,           \* TransitiveClosure: its arguments, locals and position
    picked,         \* selectLink: the record and what the call returned
    merged,         \* Merge: the receiver, the patch and the receiver after
    fetched,        \* a fetch: who fetched, the response, what came of it
    inst,           \* install: its arguments, locals, position and output
    pub,            \* publish: its arguments, the modlinks file, what it returned
    tree            \* the Mods directory as yeet, removePreviousVersion and
                    \* extractModZip work on it, and what the call returned

resolveVars == <<names, requestedName, resolved>>

cacheVars == <<goos, cache, last, intact>>

libVars == <<walk, picked, merged, fetched>>

vars ==
    <<names, requestedName, resolved, goos, cache, last, intact,
      walk, picked, merged, fetched, inst, pub, tree>>

\* The value of a variable that the specification at hand does not use.
Idle == [pc |-> "idle"]

LibIdle == walk = Idle /\ picked = Idle /\ merged = Idle /\ fetched = Idle

(***************************************************************************)
(* Text                                                                    *)
(***************************************************************************)

\* Upper-case letters with their lower-case forms (unicode.SimpleFold on ASCII).
FoldPairs ==
    { <<"A", "a">>, <<"B", "b">>, <<"C", "c">>, <<"D", "d">>, <<"E", "e">>,
      <<"F", "f">>, <<"P", "p">>, <<"R", "r">>, <<"T", "t">>, <<"V", "v">> }

ToLower(c) ==
    IF \E p \in FoldPairs : p[1] = c
    THEN (CHOOSE p \in FoldPairs : p[1] = c)[2]
    ELSE c

\* Two characters equal under simple case folding.
FoldEq(c, d) == ToLower(c) = ToLower(d)

\* strings.EqualFold
RECURSIVE EqualFold(_, _)
EqualFold(s, t) ==
    IF s = <<>> \/ t = <<>>
    THEN s = t
    ELSE FoldEq(Head(s), Head(t)) /\ EqualFold(Tail(s), Tail(t))

(***************************************************************************)
(* regexp: the part of the syntax a quoted literal can reach               *)
(***************************************************************************)

\* The characters regexp.QuoteMeta escapes.
SpecialChars ==
    { "\\", ".", "+", "*", "?", "(", ")", "|", "[", "]", "{", "}", "^", "$" }

\* A QuoteMeta that escapes nothing.
QuoteMetaNone(s) == s

\* regexp.QuoteMeta: a backslash before every special character.
RECURSIVE QuoteMeta(_)
QuoteMeta(s) ==
    IF s = <<>> THEN <<>>
    ELSE (IF Head(s) \in SpecialChars THEN <<"\\", Head(s)>> ELSE <<Head(s)>>)
         \o QuoteMeta(Tail(s))

CaseFlag == <<"(", "?", "i", ")">>

\* The instructions of an expression: a literal character or "any character".
\* A backslash takes the next character literally; a trailing backslash is a
\* syntax error, as is any operator other than "." (none is modelled).
RECURSIVE ParseExpr(_)
ParseExpr(src) ==
    IF src = <<>> THEN [ok |-> TRUE, prog |-> <<>>]
    ELSE IF Head(src) = "\\"
    THEN IF Len(src) < 2 THEN [ok |-> FALSE, prog |-> <<>>]
         ELSE LET rest == ParseExpr(SubSeq(src, 3, Len(src)))
              IN  [ok   |-> rest.ok,
                   prog |-> <<[op |-> "lit", ch |-> src[2]]>> \o rest.prog]
    ELSE IF Head(src) = "."
    THEN LET rest == ParseExpr(Tail(src))
         IN  [ok |-> rest.ok, prog |-> <<[op |-> "any", ch |-> "."]>> \o rest.prog]
    ELSE IF Head(src) \in SpecialChars
    THEN [ok |-> FALSE, prog |-> <<>>]
    ELSE LET rest == ParseExpr(Tail(src))
         IN  [ok   |-> rest.ok,
              prog |-> <<[op |-> "lit", ch |-> Head(src)]>> \o rest.prog]

\* A Compile that takes the flag group but keeps matching case-sensitive.
RegexpCompileCaseSensitive(src) ==
    LET flagged == Len(src) >= 4 /\ SubSeq(src, 1, 4) = CaseFlag
        parsed  == ParseExpr(IF flagged THEN SubSeq(src, 5, Len(src)) ELSE src)
    IN  [ok |-> parsed.ok, fold |-> FALSE, prog |-> parsed.prog]

\* regexp.Compile of a source that may start with the flag group (?i).
RegexpCompile(src) ==
    LET flagged == Len(src) >= 4 /\ SubSeq(src, 1, 4) = CaseFlag
        parsed  == ParseExpr(IF flagged THEN SubSeq(src, 5, Len(src)) ELSE src)
    IN  [ok |-> parsed.ok, fold |-> flagged, prog |-> parsed.prog]

\* Whether the program matches s starting exactly at position i.
MatchAt(re, s, i) ==
    /\ i + Len(re.prog) - 1 <= Len(s)
    /\ \A k \in 1..Len(re.prog) :
          \/ re.prog[k].op = "any"
          \/ IF re.fold THEN FoldEq(re.prog[k].ch, s[i + k - 1])
                        ELSE re.prog[k].ch = s[i + k - 1]

\* (*Regexp).MatchString: an unanchored search.
MatchString(re, s) == \E i \in 1..(Len(s) + 1) : MatchAt(re, s, i)

(***************************************************************************)
(* Bytes, digests and their hex form                                       *)
(***************************************************************************)

RECURSIVE SumBytes(_)
SumBytes(bytes) ==
    IF bytes = <<>> THEN 0 ELSE Head(bytes) + SumBytes(Tail(bytes))

\* sha256.Sum of a file's bytes. The digest here is one byte wide and is
\* not injective: two files of the same length and byte sum collide, so
\* nothing below can rest on a digest identifying its file.
Sum256(bytes) == << (Len(bytes) * 16 + SumBytes(bytes) + 9) % 256 >>

HexDigits ==
    <<"0", "1", "2", "3", "4", "5", "6", "7", "8", "9", "a", "b", "c", "d", "e", "f">>

UpperHexDigits ==
    <<"0", "1", "2", "3", "4", "5", "6", "7", "8", "9", "A", "B", "C", "D", "E", "F">>

\* hex.EncodeToString, as the catalog's maintainers write a hash.
RECURSIVE HexEncode(_)
HexEncode(bytes) ==
    IF bytes = <<>> THEN <<>>
    ELSE <<HexDigits[(Head(bytes) \div 16) + 1], HexDigits[(Head(bytes) % 16) + 1]>>
         \o HexEncode(Tail(bytes))

RECURSIVE UpperHexEncode(_)
UpperHexEncode(bytes) ==
    IF bytes = <<>> THEN <<>>
    ELSE <<UpperHexDigits[(Head(bytes) \div 16) + 1],
           UpperHexDigits[(Head(bytes) % 16) + 1]>>
         \o UpperHexEncode(Tail(bytes))

\* encoding/hex fromHexChar: the value of a digit of either case, -1 for
\* any other character.
FromHexChar(c) ==
    IF \E v \in 1..16 : HexDigits[v] = c
    THEN (CHOOSE v \in 1..16 : HexDigits[v] = c) - 1
    ELSE IF \E v \in 1..16 : UpperHexDigits[v] = c
    THEN (CHOOSE v \in 1..16 : UpperHexDigits[v] = c) - 1
    ELSE -1

RECURSIVE HexDecodeStringLenient(_)
HexDecodeStringLenient(s) ==
    IF Len(s) < 2 THEN [ok |-> TRUE, bytes |-> <<>>]
    ELSE LET hi   == FromHexChar(s[1])
             lo   == FromHexChar(s[2])
             rest == HexDecodeStringLenient(SubSeq(s, 3, Len(s)))
         IN  [ok    |-> TRUE,
              bytes |-> << (IF hi < 0 THEN 0 ELSE hi) * 16
                           + (IF lo < 0 THEN 0 ELSE lo) >> \o rest.bytes]

\* hex.DecodeString: fails on an odd length and on a character that is no
\* hex digit.
RECURSIVE HexDecodeString(_)
HexDecodeString(s) ==
    IF s = <<>> THEN [ok |-> TRUE, bytes |-> <<>>]
    ELSE IF Len(s) = 1 THEN [ok |-> FALSE, bytes |-> <<>>]
    ELSE LET hi   == FromHexChar(s[1])
             lo   == FromHexChar(s[2])
             rest == HexDecodeString(SubSeq(s, 3, Len(s)))
         IN  IF hi < 0 \/ lo < 0 THEN [ok |-> FALSE, bytes |-> <<>>]
             ELSE [ok |-> rest.ok, bytes |-> <<hi * 16 + lo>> \o rest.bytes]

(***************************************************************************)
(* Paths                                                                   *)
(***************************************************************************)

\* path.Ext: the suffix starting at the last dot of the last element of the
\* path, empty when that element has no dot. i runs down from the end.
RECURSIVE ExtFrom(_, _)
ExtFrom(p, i) ==
    IF i < 1 \/ p[i] = "/" THEN <<>>
    ELSE IF p[i] = "." THEN SubSeq(p, i, Len(p))
    ELSE ExtFrom(p, i - 1)

Ext(p) == ExtFrom(p, Len(p))

ZipExt == <<".", "z", "i", "p">>

(***************************************************************************)
(* resolveModName                                                          *)
(***************************************************************************)

NoPossibilities == <<>>

Returned(name) ==
    [kind |-> "name", name |-> name, possibilities |-> NoPossibilities,
     numMatches |-> 0]

UnknownModError ==
    [kind |-> "unknownModError", name |-> <<>>,
     possibilities |-> NoPossibilities, numMatches |-> 0]

AmbiguousModError(possibilities) ==
    [kind |-> "ambiguousModError", name |-> <<>>,
     possibilities |-> possibilities, numMatches |-> 0]

DuplicateModError(numMatches) ==
    [kind |-> "duplicateModError", name |-> <<>>,
     possibilities |-> NoPossibilities, numMatches |-> numMatches]

\* The error of regexp.Compile, returned as it is.
CompileError ==
    [kind |-> "error", name |-> <<>>, possibilities |-> NoPossibilities,
     numMatches |-> 0]

\* The first loop: the names the pattern matches, in catalog order.
RECURSIVE AppendMatches(_, _)
AppendMatches(pattern, ms) ==
    IF ms = <<>> THEN <<>>
    ELSE (IF MatchString(pattern, Head(ms)) THEN <<Head(ms)>> ELSE <<>>)
         \o AppendMatches(pattern, Tail(ms))

\* A narrowing that compares with == where strings.EqualFold is meant.
RECURSIVE NarrowInPlaceExact(_, _, _, _)
NarrowInPlaceExact(array, i, j, requested) ==
    IF i > Len(array) THEN [array |-> array, len |-> j]
    ELSE IF array[i] = requested
    THEN NarrowInPlaceExact([array EXCEPT ![j + 1] = array[i]], i + 1, j + 1, requested)
    ELSE NarrowInPlaceExact(array, i + 1, j, requested)

\* The second loop. fullMatches := matches[:0] shares the array of matches:
\* appending the j+1st full match writes element j+1 of that array. array
\* is the shared array, i the next element of matches to read, j the length
\* of fullMatches.
RECURSIVE NarrowInPlace(_, _, _, _)
NarrowInPlace(array, i, j, requested) ==
    IF i > Len(array) THEN [array |-> array, len |-> j]
    ELSE IF EqualFold(array[i], requested)
    THEN NarrowInPlace([array EXCEPT ![j + 1] = array[i]], i + 1, j + 1, requested)
    ELSE NarrowInPlace(array, i + 1, j, requested)

\* A count that ignores case, as the loop before it does.
RECURSIVE CountExactFold(_, _)
CountExactFold(fullMatches, requested) ==
    IF fullMatches = <<>> THEN 0
    ELSE (IF EqualFold(Head(fullMatches), requested) THEN 1 ELSE 0)
         + CountExactFold(Tail(fullMatches), requested)

\* The third loop: the full matches equal to the request, case included.
RECURSIVE CountExact(_, _)
CountExact(fullMatches, requested) ==
    IF fullMatches = <<>> THEN 0
    ELSE (IF Head(fullMatches) = requested THEN 1 ELSE 0)
         + CountExact(Tail(fullMatches), requested)

\* The ambiguity of the second tier reported over fullMatches, which is
\* empty there, instead of matches.
AfterNarrowingListsFull(matches, fullMatches, requested) ==
    IF Len(fullMatches) = 1 THEN Returned(fullMatches[1])
    ELSE IF Len(fullMatches) = 0 THEN AmbiguousModError(fullMatches)
    ELSE LET numExactMatches == CountExact(fullMatches, requested)
         IN  IF numExactMatches = 1 THEN Returned(requested)
             ELSE IF numExactMatches = 0 THEN AmbiguousModError(fullMatches)
             ELSE DuplicateModError(numExactMatches)

\* What the function does once both loops have run: matches is read after
\* the narrowing, through the shared array.
AfterNarrowing(matches, fullMatches, requested) ==
    IF Len(fullMatches) = 1 THEN Returned(fullMatches[1])
    ELSE IF Len(fullMatches) = 0 THEN AmbiguousModError(matches)
    ELSE LET numExactMatches == CountExact(fullMatches, requested)
         IN  IF numExactMatches = 1 THEN Returned(requested)
             ELSE IF numExactMatches = 0 THEN AmbiguousModError(fullMatches)
             ELSE DuplicateModError(numExactMatches)

\* A resolver without the third tier: several names equal to the request
\* ignoring case are an ambiguity, whatever their case.
resolveModNameTwoTiers(ms, requested) ==
    LET pattern == RegexpCompile(CaseFlag \o QuoteMeta(requested))
    IN  IF ~pattern.ok THEN CompileError
        ELSE LET matches == AppendMatches(pattern, ms)
             IN  IF Len(matches) = 1 THEN Returned(matches[1])
                 ELSE IF Len(matches) = 0 THEN UnknownModError
                 ELSE LET narrowed == NarrowInPlace(matches, 1, 0, requested)
                      IN  IF narrowed.len = 1 THEN Returned(narrowed.array[1])
                          ELSE IF narrowed.len = 0 THEN AmbiguousModError(matches)
                          ELSE AmbiguousModError(SubSeq(narrowed.array, 1, narrowed.len))

resolveModName(ms, requested) ==
    LET pattern == RegexpCompile(CaseFlag \o QuoteMeta(requested))
    IN  IF ~pattern.ok THEN CompileError
        ELSE LET matches == AppendMatches(pattern, ms)
             IN  IF Len(matches) = 1 THEN Returned(matches[1])
                 ELSE IF Len(matches) = 0 THEN UnknownModError
                 ELSE LET narrowed == NarrowInPlace(matches, 1, 0, requested)
                      IN  AfterNarrowing(narrowed.array,
                                         SubSeq(narrowed.array, 1, narrowed.len),
                                         requested)

(***************************************************************************)
(* Manifests and selectLink                                                *)
(***************************************************************************)

EmptyLink == [SHA256 |-> <<>>, URL |-> <<>>]

\* Manifest.OSLinks is a pointer: nil, or a set of three links.
NilOSLinks ==
    [isNil |-> TRUE, Windows |-> EmptyLink, Mac |-> EmptyLink, Linux |-> EmptyLink]

\* The set of links of a record with an empty Links element.
ZeroOSLinks ==
    [isNil |-> FALSE, Windows |-> EmptyLink, Mac |-> EmptyLink, Linux |-> EmptyLink]

selectLinkPlatformFirst(mod) ==
    IF mod.OSLinks.isNil
    THEN IF mod.Link.SHA256 # <<>> THEN [err |-> "nil", link |-> mod.Link]
         ELSE [err |-> "no general or platform-specific link specified",
               link |-> EmptyLink]
    ELSE LET osLink == CASE goos = "windows" -> mod.OSLinks.Windows
                         [] goos = "darwin"  -> mod.OSLinks.Mac
                         [] goos = "linux"   -> mod.OSLinks.Linux
                         [] OTHER            -> EmptyLink
         IN  IF osLink.SHA256 # <<>> THEN [err |-> "nil", link |-> osLink]
             ELSE IF mod.Link.SHA256 # <<>> THEN [err |-> "nil", link |-> mod.Link]
             ELSE [err |-> "unsupported OS", link |-> osLink]

selectLink(mod) ==
    IF mod.Link.SHA256 # <<>> THEN [err |-> "nil", link |-> mod.Link]
    ELSE IF mod.OSLinks.isNil
    THEN [err |-> "no general or platform-specific link specified",
          link |-> EmptyLink]
    ELSE LET osLink == CASE goos = "windows" -> mod.OSLinks.Windows
                         [] goos = "darwin"  -> mod.OSLinks.Mac
                         [] goos = "linux"   -> mod.OSLinks.Linux
                         [] OTHER            -> EmptyLink
         IN  [err  |-> IF osLink.SHA256 = <<>> THEN "unsupported OS" ELSE "nil",
              link |-> osLink]

(***************************************************************************)
(* The cache directory, the server, and getModFile / downloadLink          *)
(***************************************************************************)

\* The longest file, served or stored.
MaxBody == 2

ByteValues == {1, 2}

Contents == UNION { [1..n -> ByteValues] : n \in 0..MaxBody }

StatusCodes == {199, 200, 299, 300, 404}

\* Everything the server and the disk can do during one download: http.Get
\* fails; the status is no success; the directory or the file cannot be
\* created; the body arrives whole; the stream, or the write, breaks after
\* the bytes of body.
Responses ==
    { [getErr |-> TRUE, status |-> 0, body |-> <<>>, broken |-> FALSE, disk |-> "ok"] }
    \cup { [getErr |-> FALSE, status |-> c, body |-> <<>>, broken |-> FALSE,
            disk |-> "ok"] : c \in { c \in StatusCodes : ~(c >= 200 /\ c < 300) } }
    \cup { [getErr |-> FALSE, status |-> 200, body |-> <<>>, broken |-> FALSE,
            disk |-> d] : d \in {"mkdirErr", "createErr"} }
    \cup { [getErr |-> FALSE, status |-> c, body |-> b, broken |-> FALSE,
            disk |-> "ok"] : c \in { c \in StatusCodes : c >= 200 /\ c < 300 },
                             b \in Contents }
    \cup { [getErr |-> FALSE, status |-> 200, body |-> b, broken |-> TRUE,
            disk |-> "ok"] : b \in Contents }

\* No request was made, so there is no response.
NoResponse ==
    [getErr |-> FALSE, status |-> 0, body |-> <<>>, broken |-> FALSE, disk |-> "none"]

\* A path of the cache directory holds no file, a file that cannot be
\* opened or read, or a file with its bytes.
AbsentFile == [state |-> "absent", bytes |-> <<>>]

UnreadableFile == [state |-> "unreadable", bytes |-> <<>>]

RegularFile(bytes) == [state |-> "file", bytes |-> bytes]

\* No *modFile: what a failed call returns.
NilModFile == [path |-> <<>>, bytes |-> <<>>, Size |-> 0, IsZIP |-> FALSE]

isHTTPOK(code) == code >= 200 /\ code < 300

\* A cache file is accepted whatever its digest.
CacheLookupUnchecked(f, expectedSHA) ==
    IF f.state = "absent" THEN "miss"
    ELSE IF f.state = "unreadable" THEN "error"
    ELSE "hit"

\* The cache is never consulted.
CacheLookupSkipped(f, expectedSHA) == "miss"

\* getModFile's look at the cache entry f: a file that is not there, or whose
\* digest is not the expected one, is a miss; one that cannot be opened or
\* read through is an error.
CacheLookup(f, expectedSHA) ==
    IF f.state = "absent" THEN "miss"
    ELSE IF f.state = "unreadable" THEN "error"
    ELSE IF Sum256(f.bytes) # expectedSHA THEN "stale"
    ELSE "hit"

\* The digest of the download is not compared.
DownloadVerifiedAlways(written, expectedSHA) == TRUE

\* downloadLink's comparison of the digest of what it streamed.
DownloadVerified(written, expectedSHA) == Sum256(written) = expectedSHA

\* The downloaded bytes never reach the cache directory.
StoreNowhere(fs, localfile, bytes) == fs

\* os.Create followed by io.Copy: the file is truncated, then holds the bytes
\* copied.
Store(fs, localfile, bytes) == [fs EXCEPT ![localfile] = RegularFile(bytes)]

\* One download, given what the server and the disk do during it (resp):
\* http.Get fails (getErr) or answers status and body; broken tells that
\* io.Copy failed, the stream or the write breaking after the bytes of body;
\* disk is "mkdirErr", "createErr" or "ok".  A result tells whether the call
\* read the response's body (read).
downloadLinkGiven(fs, localfile, url, expectedSHA, resp) ==
    LET fail(err) == [fs |-> fs, err |-> err, file |-> NilModFile, net |-> TRUE,
                      resp |-> resp, read |-> FALSE]
    IN  IF resp.getErr THEN fail("http.Get")
        ELSE IF ~isHTTPOK(resp.status) THEN fail("response status")
        ELSE IF resp.disk = "mkdirErr" THEN fail("MkdirAll")
        ELSE IF resp.disk = "createErr" THEN fail("Create")
        ELSE LET written == resp.body
                 stored  == Store(fs, localfile, written)
             IN  IF resp.broken
                 THEN [fs |-> stored, err |-> "Copy", file |-> NilModFile,
                       net |-> TRUE, resp |-> resp, read |-> TRUE]
                 ELSE IF ~DownloadVerified(written, expectedSHA)
                 THEN [fs |-> stored, err |-> "sha256 does not match manifest",
                       file |-> NilModFile, net |-> TRUE, resp |-> resp,
                       read |-> TRUE]
                 ELSE [fs |-> stored, err |-> "nil", net |-> TRUE, resp |-> resp,
                       read |-> TRUE,
                       file |-> [path |-> localfile, bytes |-> written,
                                 Size |-> Len(written), IsZIP |-> Ext(url) = ZipExt]]

\* downloadLink: every way the call can end; the response is drawn where
\* http.Get is called.
downloadLink(fs, localfile, url, expectedSHA) ==
    { downloadLinkGiven(fs, localfile, url, expectedSHA, resp) : resp \in Responses }

\* getModFile: every way the call can end. A result carries what the call
\* printed (msg), whether it called os.Open on the cache entry (opened),
\* whether it called http.Get (net) and the response it got.
getModFile(fs, mod) ==
    LET sel  == selectLink(mod)
        dec  == HexDecodeString(sel.link.SHA256)
        ext  == Ext(sel.link.URL)
        cacheEntry == mod.Name \o ext
        quiet(err, opened) ==
            [fs |-> fs, err |-> err, file |-> NilModFile, net |-> FALSE,
             msg |-> "", link |-> sel.link, resp |-> NoResponse,
             opened |-> opened]
        download ==
            { [fs |-> d.fs, err |-> d.err, file |-> d.file, net |-> d.net,
               msg |-> "from URL", link |-> sel.link, resp |-> d.resp,
               opened |-> TRUE] :
              d \in downloadLink(fs, cacheEntry, sel.link.URL, dec.bytes) }
    IN  IF sel.err # "nil" THEN {quiet(sel.err, FALSE)}
        ELSE IF ~dec.ok THEN {quiet("hex.DecodeString", FALSE)}
        ELSE LET found == CacheLookup(fs[cacheEntry], dec.bytes)
             IN  IF found = "miss" THEN download
                 ELSE IF found = "error" THEN {quiet("read cache entry", TRUE)}
                 ELSE IF found = "stale" THEN download
                 ELSE {[fs |-> fs, err |-> "nil", net |-> FALSE,
                        msg |-> "from cache", link |-> sel.link,
                        resp |-> NoResponse, opened |-> TRUE,
                        file |-> [path |-> cacheEntry,
                                  bytes |-> fs[cacheEntry].bytes,
                                  Size |-> Len(fs[cacheEntry].bytes),
                                  IsZIP |-> ext = ZipExt]]}

(***************************************************************************)
(* The cache's inputs                                                      *)
(***************************************************************************)

FileStates == {AbsentFile, UnreadableFile} \cup { RegularFile(b) : b \in Contents }

GOOSes == {"windows", "darwin", "linux", "freebsd"}

UrlAZip == <<"u", "/", "a", ".", "z", "i", "p">>

UrlNoExt == <<"u", ".", "v", "/", "b">>

UrlWinZip == <<"u", "/", "w", ".", "z", "i", "p">>

UrlMacZip == <<"u", "/", "m", ".", "z", "i", "p">>

UrlLinuxDLL == <<"u", "/", "l", ".", "d", "l", "l">>

\* A mod with a default link to an archive.
ModA ==
    [Name |-> <<"A">>, OSLinks |-> NilOSLinks,
     Link |-> [SHA256 |-> HexEncode(Sum256(<<1, 2>>)), URL |-> UrlAZip]]

\* The same mod after the catalog moved on to another file.
ModANext ==
    [Name |-> <<"A">>, OSLinks |-> NilOSLinks,
     Link |-> [SHA256 |-> HexEncode(Sum256(<<2, 2>>)), URL |-> UrlAZip]]

\* A mod whose name and extensionless link lead to ModA's cache file; its
\* hash is written in upper case.
ModAZip ==
    [Name |-> <<"A", ".", "z", "i", "p">>, OSLinks |-> NilOSLinks,
     Link |-> [SHA256 |-> UpperHexEncode(Sum256(<<2>>)), URL |-> UrlNoExt]]

\* A mod with per-platform links only; the Mac link has no hash.
ModB ==
    [Name |-> <<"B">>, Link |-> [SHA256 |-> <<>>, URL |-> <<>>],
     OSLinks |-> [isNil |-> FALSE,
                  Windows |-> [SHA256 |-> HexEncode(Sum256(<<1, 2>>)), URL |-> UrlWinZip],
                  Mac     |-> [SHA256 |-> <<>>, URL |-> UrlMacZip],
                  Linux   |-> [SHA256 |-> HexEncode(Sum256(<<2>>)), URL |-> UrlLinuxDLL]]]

\* Mods whose hash is no hex string: a character that is no digit, an odd
\* length.
ModBadHex ==
    [Name |-> <<"C">>, OSLinks |-> NilOSLinks,
     Link |-> [SHA256 |-> <<"2", "g">>, URL |-> UrlAZip]]

ModOddHex ==
    [Name |-> <<"C">>, OSLinks |-> NilOSLinks,
     Link |-> [SHA256 |-> <<"2", "c", "0">>, URL |-> UrlAZip]]

\* A mod with no link at all.
ModNoLink == [Name |-> <<"D">>, OSLinks |-> NilOSLinks, Link |-> EmptyLink]

Mods == {ModA, ModANext, ModAZip, ModB, ModBadHex, ModOddHex, ModNoLink}

NoMod == [Name |-> <<>>, OSLinks |-> NilOSLinks, Link |-> EmptyLink]

\* The cache files getModFile can reach for these mods on this platform.
CachePaths ==
    { m.Name \o Ext(selectLink(m).link.URL) :
        m \in { m \in Mods : /\ selectLink(m).err = "nil"
                             /\ HexDecodeString(selectLink(m).link.SHA256).ok } }

NoCall ==
    [op |-> "none", mod |-> NoMod, link |-> EmptyLink, err |-> "nil",
     file |-> NilModFile, net |-> FALSE, msg |-> "", resp |-> NoResponse,
     opened |-> FALSE]

\* The cache directory is found with any content: it outlives the runs.
Init ==
    /\ goos \in GOOSes
    /\ cache \in [CachePaths -> FileStates]
    /\ last = NoCall
    /\ intact = [p \in CachePaths |-> NoMod]
    /\ names = <<>>
    /\ requestedName = <<>>
    /\ resolved = [kind |-> "pending", name |-> <<>>, possibilities |-> <<>>,
                   numMatches |-> 0]
    /\ LibIdle
    /\ inst = Idle /\ pub = Idle /\ tree = Idle

\* One call of getModFile, as install makes for each record to download.
GetModFile ==
    \E mod \in Mods :
        \E r \in getModFile(cache, mod) :
            /\ cache' = r.fs
            /\ last' = [op |-> "getModFile", mod |-> mod, link |-> r.link,
                        err |-> r.err, file |-> r.file, net |-> r.net,
                        msg |-> r.msg, resp |-> r.resp, opened |-> r.opened]
            /\ intact' = [p \in DOMAIN cache |->
                            IF r.net /\ r.err = "nil" /\ r.file.path = p THEN mod
                            ELSE IF r.fs[p] # cache[p] THEN NoMod
                            ELSE intact[p]]
            /\ UNCHANGED <<goos, resolveVars, libVars, inst, pub, tree>>

\* Between calls anything else may replace, damage or delete a cache file.
Tamper ==
    \E p \in DOMAIN cache, f \in FileStates :
        /\ f # cache[p]
        /\ cache' = [cache EXCEPT ![p] = f]
        /\ last' = [NoCall EXCEPT !.op = "tamper"]
        /\ intact' = [intact EXCEPT ![p] = NoMod]
        /\ UNCHANGED <<goos, resolveVars, libVars, inst, pub, tree>>

Next == GetModFile \/ Tamper

Spec == Init /\ [][Next]_vars

(***************************************************************************)
(* The cache's contract                                                    *)
(***************************************************************************)

HexChars == { HexDigits[i] : i \in 1..16 } \cup { UpperHexDigits[i] : i \in 1..16 }

\* h is a hash getModFile can work with: written, and in hex.
UsableHash(h) ==
    /\ h # <<>>
    /\ Len(h) % 2 = 0
    /\ \A i \in 1..Len(h) : h[i] \in HexChars

\* The digest of bytes is the one the hex string h names, in either case.
DigestEqualsHash(bytes, h) ==
    [i \in 1..Len(h) |-> ToLower(h[i])] = HexEncode(Sum256(bytes))

\* The cache entry of a record fetched through a link.
EntryPath(mod, link) == mod.Name \o Ext(link.URL)

\* The links a record carries.
LinksOf(mod) ==
    {mod.Link} \cup (IF mod.OSLinks.isNil THEN {}
                     ELSE {mod.OSLinks.Windows, mod.OSLinks.Mac, mod.OSLinks.Linux})

\* The entry of the call just made holds a file whose digest is the expected
\* one; read in the state before the call.
ValidEntryBefore ==
    /\ UsableHash(last'.link.SHA256)
    /\ cache[EntryPath(last'.mod, last'.link)].state = "file"
    /\ DigestEqualsHash(cache[EntryPath(last'.mod, last'.link)].bytes,
                        last'.link.SHA256)

\* The entry of the call just made is absent, or holds a file of another
\* digest; read in the state before the call.
AbsentOrStaleBefore ==
    /\ UsableHash(last'.link.SHA256)
    /\ \/ cache[EntryPath(last'.mod, last'.link)].state = "absent"
       \/ /\ cache[EntryPath(last'.mod, last'.link)].state = "file"
          /\ ~DigestEqualsHash(cache[EntryPath(last'.mod, last'.link)].bytes,
                               last'.link.SHA256)

\* The step is a call of getModFile.
IsGetModFileStep == last'.op = "getModFile"

\* C1: getModFile returns a file only if the digest of the file's bytes is
\* the expected hash of the record's link, whatever the cache held; the file
\* returned is the cache entry.
C1_OnlyVerifiedFilesReturned ==
    (last.op = "getModFile" /\ last.err = "nil") =>
        /\ last.link \in LinksOf(last.mod)
        /\ UsableHash(last.link.SHA256)
        /\ DigestEqualsHash(last.file.bytes, last.link.SHA256)
        /\ last.file.path = EntryPath(last.mod, last.link)
        /\ cache[last.file.path] = RegularFile(last.file.bytes)

\* A cache hit on a hash the catalog writes in upper case.
C1_Witness ==
    /\ last.op = "getModFile"
    /\ last.err = "nil"
    /\ last.msg = "from cache"
    /\ last.mod = ModAZip

\* The download came whole, and its digest is not the expected one.
CompleteMismatch ==
    /\ last.op = "getModFile"
    /\ last.net
    /\ ~last.resp.getErr
    /\ last.resp.status >= 200 /\ last.resp.status < 300
    /\ last.resp.disk = "ok"
    /\ ~last.resp.broken
    /\ ~DigestEqualsHash(last.resp.body, last.link.SHA256)

\* C2: a download that completes with another digest than the expected one
\* fails with the integrity error and returns no file; the file it leaves is
\* no cache hit for that hash: a call that finds a file of another digest
\* downloads again.
C2_MismatchedDownloadRejected ==
    /\ [](CompleteMismatch =>
            /\ last.err = "sha256 does not match manifest"
            /\ last.file = NilModFile
            /\ cache[EntryPath(last.mod, last.link)] = RegularFile(last.resp.body))
    /\ [][(/\ IsGetModFileStep
           /\ UsableHash(last'.link.SHA256)
           /\ cache[EntryPath(last'.mod, last'.link)].state = "file"
           /\ ~DigestEqualsHash(cache[EntryPath(last'.mod, last'.link)].bytes,
                                last'.link.SHA256))
            => (last'.net /\ last'.msg = "from URL")]_vars

\* A whole body of the wrong digest was stored and refused.
C2_Witness ==
    /\ CompleteMismatch
    /\ last.resp.body # <<>>
    /\ last.err = "sha256 does not match manifest"

\* C3: a call that finds a cache entry of the expected digest returns that
\* entry, makes no request and leaves the cache as it is; a call makes a
\* request only when the entry is absent or of another digest.
C3_CacheHitIsLocal ==
    /\ [][(IsGetModFileStep /\ ValidEntryBefore) =>
            /\ last'.err = "nil"
            /\ last'.msg = "from cache"
            /\ last'.file.path = EntryPath(last'.mod, last'.link)
            /\ last'.file.bytes = cache[EntryPath(last'.mod, last'.link)].bytes
            /\ ~last'.net
            /\ cache' = cache]_vars
    /\ [][(IsGetModFileStep /\ last'.net) => AbsentOrStaleBefore]_vars

\* A hit through a per-platform link, on a file that is no archive.
C3_Witness ==
    /\ last.op = "getModFile"
    /\ last.mod = ModB
    /\ last.msg = "from cache"
    /\ ~last.file.IsZIP
    /\ ~last.net

\* C4: after a successful download the cache entry holds the bytes that were
\* downloaded, and while nothing writes the entry, the next call for the same
\* record and hash is a cache hit that makes no request.
C4_DownloadPopulatesCache ==
    /\ []((last.op = "getModFile" /\ last.err = "nil" /\ last.net) =>
            /\ cache[EntryPath(last.mod, last.link)] = RegularFile(last.resp.body)
            /\ last.file.bytes = last.resp.body
            /\ intact[EntryPath(last.mod, last.link)] = last.mod)
    /\ [][(/\ IsGetModFileStep
           /\ UsableHash(last'.link.SHA256)
           /\ intact[EntryPath(last'.mod, last'.link)] = last'.mod)
            => (/\ last'.err = "nil"
                /\ last'.msg = "from cache"
                /\ ~last'.net
                /\ last'.file.bytes = cache[EntryPath(last'.mod, last'.link)].bytes)]_vars

\* A hit on the file the same record's download left.
C4_Witness ==
    /\ last.op = "getModFile"
    /\ last.msg = "from cache"
    /\ last.mod = ModA
    /\ intact[last.file.path] = ModA

(***************************************************************************)
(* The resolver's inputs                                                   *)
(***************************************************************************)

\* The longest catalog.
MaxCatalog == 3

NameRandoPlus == <<"R", "a", "n", "d", "o", "P", "l", "u", "s">>

NameRandoVanillaTracker ==
    <<"R", "a", "n", "d", "o", " ", "V", "a", "n", "i", "l", "l", "a", " ",
      "T", "r", "a", "c", "k", "e", "r">>

NameTrandoPlus == <<"T", "r", "a", "n", "d", "o", "P", "l", "u", "s">>

\* The names a catalog is made of: case variants of one name, a name that
\* contains another, a name with a regexp operator in it, the empty name.
NamePool ==
    { <<>>, <<"a", "b">>, <<"A", "b">>, <<"a", "b", "b">>, <<"a", ".", "b">>,
      <<"a", "c", "b">>, NameRandoPlus, NameRandoVanillaTracker, NameTrandoPlus }

RequestPool ==
    { <<>>, <<"a">>, <<"a", "b">>, <<"A", "b">>, <<"a", "B">>, <<"a", "b", "b">>,
      <<"a", ".", "b">>, <<".">>, <<"\\">>, <<"b", "a">>,
      <<"r", "a", "n", "d", "o">>, NameRandoPlus }

Catalogs == UNION { [1..n -> NamePool] : n \in 0..MaxCatalog }

Pending ==
    [kind |-> "pending", name |-> <<>>, possibilities |-> NoPossibilities,
     numMatches |-> 0]

InitResolve ==
    /\ names \in Catalogs
    /\ requestedName \in RequestPool
    /\ resolved = Pending
    /\ goos = "linux"
    /\ cache = [p \in CachePaths |-> AbsentFile]
    /\ last = NoCall
    /\ intact = [p \in CachePaths |-> NoMod]
    /\ LibIdle
    /\ inst = Idle /\ pub = Idle /\ tree = Idle

\* install's loop body: one requested name is resolved against the catalog.
ResolveModName ==
    /\ resolved.kind = "pending"
    /\ resolved' = resolveModName(names, requestedName)
    /\ UNCHANGED <<names, requestedName>>
    /\ UNCHANGED <<cacheVars, libVars, inst, pub, tree>>

\* install's loop goes on to the next requested name, same catalog.
NextRequest ==
    /\ resolved.kind # "pending"
    /\ requestedName' \in RequestPool
    /\ resolved' = Pending
    /\ UNCHANGED names
    /\ UNCHANGED <<cacheVars, libVars, inst, pub, tree>>

NextResolve == ResolveModName \/ NextRequest

SpecResolve == InitResolve /\ [][NextResolve]_vars

(***************************************************************************)
(* The resolver's contract, stated on the catalog and the request alone    *)
(***************************************************************************)

Range(s) == { s[i] : i \in DOMAIN s }

\* name contains req as a substring, case ignored.
ContainsIgnoringCase(name, req) ==
    \E off \in 0..(Len(name) - Len(req)) :
        \A k \in 1..Len(req) : ToLower(name[off + k]) = ToLower(req[k])

\* name equals req, case ignored.
EqualsIgnoringCase(name, req) ==
    /\ Len(name) = Len(req)
    /\ \A k \in 1..Len(req) : ToLower(name[k]) = ToLower(req[k])

IsSubstringMatch(name) == ContainsIgnoringCase(name, requestedName)

IsFullMatch(name) == EqualsIgnoringCase(name, requestedName)

IsExactMatch(name) == name = requestedName

\* The tier-1 match set, in catalog order.
SubstringMatches == SelectSeq(names, IsSubstringMatch)

\* The tier-2 match set, in catalog order.
FullMatches == SelectSeq(names, IsFullMatch)

\* The number of catalog entries equal to the request, case included.
NumExact == Len(SelectSeq(names, IsExactMatch))

Occurrences(name) == Cardinality({ i \in DOMAIN names : names[i] = name })

ResolveDone == resolved.kind # "pending"

\* C5: when no catalog name contains the request (case ignored) the result is
\* NotFound; when exactly one does, that name is returned.
C5_Tier1 ==
    ResolveDone =>
        /\ Len(SubstringMatches) = 0 => resolved = UnknownModError
        /\ Len(SubstringMatches) = 1 => resolved = Returned(SubstringMatches[1])

\* The single substring match is returned though it differs from the request.
C5_Witness ==
    /\ ResolveDone
    /\ Len(SubstringMatches) = 1
    /\ SubstringMatches[1] # requestedName
    /\ ~EqualsIgnoringCase(SubstringMatches[1], requestedName)
    /\ resolved.kind = "name"

\* C6: two or more substring matches, none equal to the request ignoring
\* case: Ambiguous, listing the whole substring match set in catalog order.
C6_Tier2Ambiguous ==
    (ResolveDone /\ Len(SubstringMatches) >= 2 /\ Len(FullMatches) = 0)
        => resolved = AmbiguousModError(SubstringMatches)

\* The scenario of the specification: rando against the three Rando names.
C6_Witness ==
    /\ names = <<NameRandoPlus, NameRandoVanillaTracker, NameTrandoPlus>>
    /\ requestedName = <<"r", "a", "n", "d", "o">>
    /\ resolved.kind = "ambiguousModError"
    /\ resolved.possibilities = names

\* C7: several substring matches but exactly one name equal to the request
\* ignoring case: that name is returned, in the catalog's spelling.
C7_Tier2Success ==
    (ResolveDone /\ Len(SubstringMatches) > 1 /\ Len(FullMatches) = 1)
        => resolved = Returned(FullMatches[1])

\* The name returned is spelled as in the catalog, not as requested.
C7_Witness ==
    /\ ResolveDone
    /\ Len(SubstringMatches) > 1
    /\ Len(FullMatches) = 1
    /\ FullMatches[1] # requestedName
    /\ resolved.kind = "name"

\* C8: two or more names equal to the request ignoring case, k of them with
\* exact case: k = 1 returns the request, k = 0 is Ambiguous over the names
\* equal ignoring case, k > 1 is DuplicateExact carrying k.
C8_Tier3 ==
    (ResolveDone /\ Len(FullMatches) >= 2) =>
        /\ NumExact = 1 => resolved = Returned(requestedName)
        /\ NumExact = 0 => resolved = AmbiguousModError(FullMatches)
        /\ NumExact > 1 => resolved = DuplicateModError(NumExact)

\* k = 0, with a substring match that is no full match: the list is narrowed.
C8_Witness ==
    /\ ResolveDone
    /\ Len(FullMatches) >= 2
    /\ NumExact = 0
    /\ Len(SubstringMatches) > Len(FullMatches)
    /\ resolved.kind = "ambiguousModError"

\* C9: in a catalog of pairwise distinct names, a request spelled exactly as
\* a catalog name resolves to that name.
C9_ExactNameResolves ==
    (/\ ResolveDone
     /\ \A n \in Range(names) : Occurrences(n) = 1
     /\ requestedName \in Range(names))
        => resolved = Returned(requestedName)

\* Other names contain the request, and another equals it ignoring case.
C9_Witness ==
    /\ ResolveDone
    /\ \A n \in Range(names) : Occurrences(n) = 1
    /\ requestedName \in Range(names)
    /\ Len(FullMatches) >= 2
    /\ Len(SubstringMatches) > Len(FullMatches)
    /\ resolved.kind = "name"

\* C10: every call ends with a name, NotFound, Ambiguous or DuplicateExact;
\* a returned name is in the catalog, and occurs in it exactly once.
C10_OutcomesAndDuplicates ==
    ResolveDone =>
        /\ resolved.kind \in
              {"name", "unknownModError", "ambiguousModError", "duplicateModError"}
        /\ resolved.kind = "name" =>
              /\ resolved.name \in Range(names)
              /\ Occurrences(resolved.name) = 1

\* A name listed twice is requested exactly: DuplicateExact, not the name.
C10_Witness ==
    /\ ResolveDone
    /\ requestedName \in Range(names)
    /\ Occurrences(requestedName) = 2
    /\ resolved = DuplicateModError(2)


\* C18: if the selected Link's hash string is not valid hex, getModFile
\* fails before it opens the cache entry, calls http.Get or writes a file,
\* and leaves the cache as it was.
C18_BadHexFailsFast ==
    [][(/\ IsGetModFileStep
        /\ last'.link \in LinksOf(last'.mod)
        /\ last'.link.SHA256 # <<>>
        /\ ~UsableHash(last'.link.SHA256))
       => /\ last'.err \notin {"nil", "unsupported OS"}
          /\ last'.file = NilModFile
          /\ ~last'.opened
          /\ ~last'.net
          /\ last'.msg = ""
          /\ cache' = cache]_vars

\* A call for a record whose hash has a character that is no hex digit,
\* made with the entry's file in the cache, has failed.
C18_Witness ==
    /\ last.op = "getModFile"
    /\ last.link.SHA256 # <<>>
    /\ \E i \in 1..Len(last.link.SHA256) : last.link.SHA256[i] \notin HexChars
    /\ last.err # "nil"
    /\ \E p \in DOMAIN cache : cache[p].state = "file"

(***************************************************************************)
(* The dependency walk (package modlinks).  A Manifest is here its Name    *)
(* and its Dependencies; a *Manifest is the record's index in the catalog. *)
(* A call of transitiveClosure in progress is a frame of the stack: the    *)
(* name it was called with and the position of its loop over the           *)
(* dependencies.                                                           *)
(***************************************************************************)
MaxDeps == 2

MaxMods == 2

SeqsUpTo(S, n) == UNION { [1..k -> S] : k \in 0..n }

\* for i := range allModlinks { modsByName[allModlinks[i].Name] = &allModlinks[i] }
ModsByName(allModlinks) ==
    [name \in { allModlinks[k].Name : k \in DOMAIN allModlinks } |->
        LET ks == { k \in DOMAIN allModlinks : allModlinks[k].Name = name }
        IN  CHOOSE k \in ks : \A j \in ks : j <= k]

\* m[key] = value
MapPut(m, key, value) ==
    [k \in DOMAIN m \cup {key} |-> IF k = key THEN value ELSE m[k]]

EmptyMap == [k \in {} |-> 0]

transitiveClosureShallow(modsByName, resultSet, missingMods, modName) ==
    IF modName \in DOMAIN resultSet
    THEN [resultSet |-> resultSet, missingMods |-> missingMods, expand |-> FALSE]
    ELSE IF modName \notin DOMAIN modsByName
    THEN [resultSet |-> resultSet, missingMods |-> missingMods \cup {modName},
          expand |-> FALSE]
    ELSE [resultSet |-> MapPut(resultSet, modName, modsByName[modName]),
          missingMods |-> missingMods, expand |-> FALSE]

transitiveClosureRevisiting(modsByName, resultSet, missingMods, modName) ==
    IF modName \notin DOMAIN modsByName
    THEN [resultSet |-> resultSet, missingMods |-> missingMods \cup {modName},
          expand |-> FALSE]
    ELSE [resultSet |-> MapPut(resultSet, modName, modsByName[modName]),
          missingMods |-> missingMods, expand |-> TRUE]

transitiveClosureSilent(modsByName, resultSet, missingMods, modName) ==
    IF modName \in DOMAIN resultSet
    THEN [resultSet |-> resultSet, missingMods |-> missingMods, expand |-> FALSE]
    ELSE IF modName \notin DOMAIN modsByName
    THEN [resultSet |-> resultSet, missingMods |-> missingMods, expand |-> FALSE]
    ELSE [resultSet |-> MapPut(resultSet, modName, modsByName[modName]),
          missingMods |-> missingMods, expand |-> TRUE]

\* One call of transitiveClosure up to its loop: the two maps as the call
\* leaves them, and whether it goes on to walk the record's dependencies.
transitiveClosure(modsByName, resultSet, missingMods, modName) ==
    IF modName \in DOMAIN resultSet
    THEN [resultSet |-> resultSet, missingMods |-> missingMods, expand |-> FALSE]
    ELSE IF modName \notin DOMAIN modsByName
    THEN [resultSet |-> resultSet, missingMods |-> missingMods \cup {modName},
          expand |-> FALSE]
    ELSE [resultSet |-> MapPut(resultSet, modName, modsByName[modName]),
          missingMods |-> missingMods, expand |-> TRUE]

\* Ranging over a map visits its keys in an order the runtime chooses.
Orderings(S) ==
    { f \in [1..Cardinality(S) -> S] : \A a, b \in DOMAIN f : f[a] = f[b] => a = b }

NilError == [isNil |-> TRUE, names |-> <<>>]

ClosureReturnsEitherOr(allModlinks, resultSet, missingMods) ==
    { [result |-> IF missingMods = {} THEN [k \in DOMAIN o |-> allModlinks[resultSet[o[k]]]]
                  ELSE <<>>,
       err    |-> IF Len(missing) > 0 THEN [isNil |-> FALSE, names |-> missing]
                  ELSE NilError] :
      o \in Orderings(DOMAIN resultSet), missing \in Orderings(missingMods) }

\* What TransitiveClosure returns once the walk is over: the records of
\* resultSet and the names of missingModSet, each in map order.
ClosureReturns(allModlinks, resultSet, missingMods) ==
    { [result |-> [k \in DOMAIN o |-> allModlinks[resultSet[o[k]]]],
       err    |-> IF Len(missing) > 0 THEN [isNil |-> FALSE, names |-> missing]
                  ELSE NilError] :
      o \in Orderings(DOMAIN resultSet), missing \in Orderings(missingMods) }


\* TransitiveClosure as it starts: both maps empty, the loop over mods at
\* its first element, no call of transitiveClosure in progress.
WalkStart(allModlinks, mods) ==
    [pc |-> "walk", allModlinks |-> allModlinks, mods |-> mods, i |-> 1,
     stack |-> <<>>, resultSet |-> EmptyMap, missingMods |-> {}, calls |-> 0,
     result |-> <<>>, err |-> NilError]

DepsOfTop(w) ==
    w.allModlinks[w.resultSet[w.stack[Len(w.stack)].modName]].Dependencies

\* The loop that runs (the innermost call's, or TransitiveClosure's own
\* when no call is in progress) has another name to go through.
CanCall(w) ==
    /\ w.pc = "walk"
    /\ IF w.stack = <<>> THEN w.i <= Len(w.mods)
       ELSE w.stack[Len(w.stack)].next <= Len(DepsOfTop(w))

CanReturn(w) ==
    /\ w.pc = "walk"
    /\ w.stack # <<>>
    /\ w.stack[Len(w.stack)].next > Len(DepsOfTop(w))

CanFinish(w) == w.pc = "walk" /\ w.stack = <<>> /\ w.i > Len(w.mods)

\* The running loop calls transitiveClosure with its next name.
AfterCall(w) ==
    LET top     == Len(w.stack)
        modName == IF top = 0 THEN w.mods[w.i]
                   ELSE DepsOfTop(w)[w.stack[top].next]
        r       == transitiveClosure(ModsByName(w.allModlinks), w.resultSet,
                                     w.missingMods, modName)
        moved   == IF top = 0 THEN w.stack
                   ELSE [w.stack EXCEPT ![top].next = @ + 1]
    IN  [w EXCEPT !.i = IF top = 0 THEN @ + 1 ELSE @,
                  !.stack = IF r.expand
                            THEN Append(moved, [modName |-> modName, next |-> 1])
                            ELSE moved,
                  !.resultSet = r.resultSet,
                  !.missingMods = r.missingMods,
                  !.calls = @ + 1]

\* The innermost call has gone through its record's dependencies.
AfterReturn(w) == [w EXCEPT !.stack = SubSeq(@, 1, Len(@) - 1)]

AfterFinish(w) ==
    { [w EXCEPT !.pc = "done", !.result = r.result, !.err = r.err] :
      r \in ClosureReturns(w.allModlinks, w.resultSet, w.missingMods) }

\* The walk run to its end, as a caller of TransitiveClosure has it run.
RECURSIVE Walked(_)
Walked(w) ==
    IF CanCall(w) THEN Walked(AfterCall(w))
    ELSE IF CanReturn(w) THEN Walked(AfterReturn(w))
    ELSE w

\* All that a call of TransitiveClosure may return.
TransitiveClosure(allModlinks, mods) ==
    { [result |-> w.result, err |-> w.err] :
      w \in AfterFinish(Walked(WalkStart(allModlinks, mods))) }

ClosureNames == {"A", "B", "C"}

AbsentName == "Z"

ClosureManifest(name, deps) == [Name |-> name, Dependencies |-> deps]

\* Catalogs of up to three records with distinct names: A, which may
\* depend on itself, on B and on a name that is in no catalog; B, which
\* may depend on A and C; C, which may depend on A.
ClosureCatalogs ==
    { SelectSeq(<<a, b, c>>, LAMBDA m : m.Name # AbsentName) :
        a \in { ClosureManifest("A", d) : d \in SeqsUpTo({"A", "B", AbsentName}, MaxDeps) },
        b \in { ClosureManifest("B", d) : d \in SeqsUpTo({"A", "C"}, MaxDeps) }
              \cup { ClosureManifest(AbsentName, <<>>) },
        c \in { ClosureManifest("C", <<>>), ClosureManifest("C", <<"A">>),
                ClosureManifest(AbsentName, <<>>) } }

ClosureRequests == SeqsUpTo({"A", "C", AbsentName}, MaxMods)

InitClosure ==
    /\ \E allModlinks \in ClosureCatalogs, mods \in ClosureRequests :
           walk = WalkStart(allModlinks, mods)
    /\ picked = Idle /\ merged = Idle /\ fetched = Idle /\ inst = Idle /\ pub = Idle /\ tree = Idle
    /\ names = <<>> /\ requestedName = <<>> /\ resolved = Pending
    /\ goos = "linux"
    /\ cache = [p \in CachePaths |-> AbsentFile]
    /\ last = NoCall
    /\ intact = [p \in CachePaths |-> NoMod]

closureOthers ==
    <<names, requestedName, resolved, goos, cache, last, intact,
      picked, merged, fetched, inst, pub, tree>>

ClosureCall ==
    /\ CanCall(walk)
    /\ walk' = AfterCall(walk)
    /\ UNCHANGED closureOthers

ClosureReturn ==
    /\ CanReturn(walk)
    /\ walk' = AfterReturn(walk)
    /\ UNCHANGED closureOthers

ClosureFinish ==
    /\ CanFinish(walk)
    /\ walk' \in AfterFinish(walk)
    /\ UNCHANGED closureOthers

NextClosure == ClosureCall \/ ClosureReturn \/ ClosureFinish

SpecClosure == InitClosure /\ [][NextClosure]_vars


(***************************************************************************)
(* The walk's contract, stated on the catalog and the request alone: the   *)
(* dependency graph has an edge from a record to each name in its          *)
(* Dependencies, and what is reachable is a least fixed point.             *)
(***************************************************************************)
CatalogNames(allModlinks) == { allModlinks[k].Name : k \in DOMAIN allModlinks }

RecordNamed(allModlinks, name) ==
    CHOOSE m \in Range(allModlinks) : m.Name = name

\* The names that the records named in S depend on.
DependedUpon(allModlinks, S) ==
    UNION { Range(RecordNamed(allModlinks, n).Dependencies) :
            n \in S \cap CatalogNames(allModlinks) }

\* S with everything reached from it, absent names included.
RECURSIVE ReachableFrom(_, _)
ReachableFrom(allModlinks, S) ==
    LET T == S \cup DependedUpon(allModlinks, S)
    IN  IF T = S THEN S ELSE ReachableFrom(allModlinks, T)

Reached == ReachableFrom(walk.allModlinks, Range(walk.mods))

ReachedRecords ==
    { m \in Range(walk.allModlinks) : m.Name \in Reached }

ReachedMissing == Reached \ CatalogNames(walk.allModlinks)

WalkDone == walk.pc = "done"

NoRepeats(q) == \A a, b \in DOMAIN q : q[a] = q[b] => a = b

\* C11: TransitiveClosure returns exactly the catalog records reachable
\* from the requested names through dependency lists: every requested name
\* that is in the catalog and every transitive dependency that is in the
\* catalog is in the result, and no record unreachable from the request is.
C11_ExactlyReachable ==
    WalkDone =>
        /\ Range(walk.result) = ReachedRecords
        /\ \A n \in Range(walk.mods) \cap CatalogNames(walk.allModlinks) :
               RecordNamed(walk.allModlinks, n) \in Range(walk.result)
        /\ \A m \in Range(walk.result) :
               \A d \in Range(m.Dependencies) \cap CatalogNames(walk.allModlinks) :
                   RecordNamed(walk.allModlinks, d) \in Range(walk.result)

\* The catalog A{deps:[B]}, B, C was asked for A, and C was left out.
C11_Witness ==
    /\ WalkDone
    /\ walk.allModlinks = << ClosureManifest("A", <<"B">>),
                             ClosureManifest("B", <<>>),
                             ClosureManifest("C", <<>>) >>
    /\ walk.mods = <<"A">>
    /\ Len(walk.result) = 2

RECURSIVE SumLens(_)
SumLens(q) == IF q = <<>> THEN 0 ELSE Head(q) + SumLens(Tail(q))

\* The calls of transitiveClosure that a walk can make at most: one for
\* each requested name and one for each dependency of each record.
CallBudget(w) ==
    Len(w.mods) + SumLens([k \in DOMAIN w.allModlinks |->
                              Len(w.allModlinks[k].Dependencies)])

\* What is left of the walk: it is a natural number and every step makes
\* it smaller.
Variant(w) ==
    2 * (CallBudget(w) - w.calls) + Len(w.stack) + (IF w.pc = "walk" THEN 1 ELSE 0)

\* C12: TransitiveClosure terminates on every finite catalog, cycles and
\* self-dependencies included (every step of the walk lowers a measure
\* that never goes below zero), and each record appears at most once in
\* the result, however often it was requested or reached.
C12_TerminatesWithoutDuplicates ==
    /\ [](Variant(walk) >= 0)
    /\ [](WalkDone => NoRepeats([k \in DOMAIN walk.result |-> walk.result[k].Name]))
    /\ [][Variant(walk') < Variant(walk) /\ Variant(walk') >= 0]_vars

\* A depends on B and B on A: asked for A twice, the walk ended with the
\* two records and no missing name.
C12_Witness ==
    /\ WalkDone
    /\ walk.allModlinks = << ClosureManifest("A", <<"B">>),
                             ClosureManifest("B", <<"A">>) >>
    /\ walk.mods = <<"A", "A">>
    /\ Len(walk.result) = 2
    /\ walk.err.isNil

\* C13: a requested or depended-upon name that is not in the catalog is
\* put in the missing set, is not in the result and is not expanded, and
\* every other requested name and dependency is still resolved.
C13_MissingNamesSetAside ==
    WalkDone =>
        /\ Range(walk.err.names) = ReachedMissing
        /\ \A m \in Range(walk.result) : m.Name \notin ReachedMissing
        /\ \A m \in Range(walk.result) : m \in Range(walk.allModlinks)
        /\ \A n \in Reached \ ReachedMissing :
               RecordNamed(walk.allModlinks, n) \in Range(walk.result)

\* The catalog A{deps:[B]}, B, C was asked for A and Z: Z is missing, A
\* and B are the result.
C13_Witness ==
    /\ WalkDone
    /\ walk.allModlinks = << ClosureManifest("A", <<"B">>),
                             ClosureManifest("B", <<>>),
                             ClosureManifest("C", <<>>) >>
    /\ walk.mods = <<"A", AbsentName>>
    /\ walk.err.names = <<AbsentName>>
    /\ Len(walk.result) = 2

\* C14: TransitiveClosure returns the resolved records and the failure
\* together: the error is non-nil exactly when a name is missing, it lists
\* every missing name exactly once, and the records that did resolve are
\* returned in the same call.
C14_ResultAndErrorTogether ==
    WalkDone =>
        /\ walk.err.isNil <=> ReachedMissing = {}
        /\ walk.err.isNil => walk.err.names = <<>>
        /\ Range(walk.err.names) = ReachedMissing
        /\ NoRepeats(walk.err.names)
        /\ Range(walk.result) = ReachedRecords

\* The absent name was both requested and depended upon; the error names
\* it once and comes with the records that resolved.
C14_Witness ==
    /\ WalkDone
    /\ AbsentName \in Range(walk.mods)
    /\ \E m \in Range(walk.result) : AbsentName \in Range(m.Dependencies)
    /\ ~walk.err.isNil
    /\ walk.err.names = <<AbsentName>>


(***************************************************************************)
(* selectLink on its own: any record, any platform.                        *)
(***************************************************************************)
HashOfOne == HexEncode(Sum256(<<1>>))

DefaultLinks ==
    { EmptyLink, [SHA256 |-> <<>>, URL |-> UrlAZip],
      [SHA256 |-> HashOfOne, URL |-> UrlAZip] }

PlatformSets ==
    { NilOSLinks } \cup
    { [isNil |-> FALSE,
       Windows |-> [SHA256 |-> w, URL |-> UrlWinZip],
       Mac     |-> [SHA256 |-> m, URL |-> UrlMacZip],
       Linux   |-> [SHA256 |-> l, URL |-> UrlLinuxDLL]] :
      w \in {<<>>, HexEncode(Sum256(<<1, 2>>))},
      m \in {<<>>, HexEncode(Sum256(<<2, 1>>))},
      l \in {<<>>, HexEncode(Sum256(<<2>>))} }

SelectMods ==
    { [Name |-> <<"S">>, Link |-> d, OSLinks |-> o] :
      d \in DefaultLinks, o \in PlatformSets }

InitSelect ==
    /\ goos \in GOOSes
    /\ \E mod \in SelectMods :
           picked = [pc |-> "call", mod |-> mod, link |-> EmptyLink, err |-> "nil"]
    /\ walk = Idle /\ merged = Idle /\ fetched = Idle /\ inst = Idle /\ pub = Idle /\ tree = Idle
    /\ names = <<>> /\ requestedName = <<>> /\ resolved = Pending
    /\ cache = [p \in CachePaths |-> AbsentFile]
    /\ last = NoCall
    /\ intact = [p \in CachePaths |-> NoMod]

\* getModFile's first statement: link, err := selectLink(mod)
SelectLink ==
    /\ picked.pc = "call"
    /\ LET r == selectLink(picked.mod)
       IN  picked' = [picked EXCEPT !.pc = "done", !.link = r.link, !.err = r.err]
    /\ UNCHANGED <<names, requestedName, resolved, goos, cache, last, intact,
                   walk, merged, fetched, inst, pub, tree>>

\* The caller goes on to another record.
SelectNext ==
    /\ picked.pc = "done"
    /\ \E mod \in SelectMods :
           picked' = [pc |-> "call", mod |-> mod, link |-> EmptyLink, err |-> "nil"]
    /\ UNCHANGED <<names, requestedName, resolved, goos, cache, last, intact,
                   walk, merged, fetched, inst, pub, tree>>

NextSelect == SelectLink \/ SelectNext

SpecSelect == InitSelect /\ [][NextSelect]_vars

\* The entry of a per-platform set for a platform, where it has one.
HasPlatformEntry(os) == os \in {"windows", "darwin", "linux"}

PlatformEntry(set, os) ==
    IF os = "windows" THEN set.Windows
    ELSE IF os = "darwin" THEN set.Mac
    ELSE set.Linux

\* C17: selectLink returns the record's default Link whenever its hash is
\* non-empty, even with a per-platform set present; otherwise it returns
\* the caller's platform's Link of the per-platform set, and it fails when
\* the record has no per-platform set, when the platform's entry has an
\* empty hash, or when the platform is none of windows, darwin, linux.
C17_SelectLink ==
    picked.pc = "done" =>
        LET mod == picked.mod
        IN  /\ mod.Link.SHA256 # <<>> =>
                   picked.err = "nil" /\ picked.link = mod.Link
            /\ mod.Link.SHA256 = <<>> /\ mod.OSLinks.isNil => picked.err # "nil"
            /\ mod.Link.SHA256 = <<>> /\ ~HasPlatformEntry(goos) => picked.err # "nil"
            /\ /\ mod.Link.SHA256 = <<>>
               /\ ~mod.OSLinks.isNil
               /\ HasPlatformEntry(goos)
               => LET entry == PlatformEntry(mod.OSLinks, goos)
                  IN  IF entry.SHA256 = <<>> THEN picked.err # "nil"
                      ELSE picked.err = "nil" /\ picked.link = entry

\* A record with a default Link and a per-platform set whose entry for the
\* caller's platform has a hash: the default Link was returned.
C17_Witness ==
    /\ picked.pc = "done"
    /\ picked.mod.Link.SHA256 # <<>>
    /\ ~picked.mod.OSLinks.isNil
    /\ HasPlatformEntry(goos)
    /\ PlatformEntry(picked.mod.OSLinks, goos).SHA256 # <<>>
    /\ picked.link = picked.mod.Link


(***************************************************************************)
(* Manifest.Merge (package modlinks).  Here a Manifest has all its fields; *)
(* Dependencies is a slice, which is nil or a list that may be empty.      *)
(***************************************************************************)
NilSlice == [isNil |-> TRUE, list |-> <<>>]

Slice(list) == [isNil |-> FALSE, list |-> list]

MergeKeepingOnEmptyList(m, patch) ==
    [Name         |-> m.Name,
     Description  |-> IF patch.Description # "" THEN patch.Description
                      ELSE m.Description,
     Version      |-> patch.Version,
     Link         |-> patch.Link,
     OSLinks      |-> m.OSLinks,
     Dependencies |-> IF Len(patch.Dependencies.list) > 0 THEN patch.Dependencies
                      ELSE m.Dependencies,
     Repository   |-> IF patch.Repository # "" THEN patch.Repository
                      ELSE m.Repository]

\* func (m *Manifest) Merge(patch Manifest): the receiver after the call.
Merge(m, patch) ==
    [Name         |-> m.Name,
     Description  |-> IF patch.Description # "" THEN patch.Description
                      ELSE m.Description,
     Version      |-> patch.Version,
     Link         |-> patch.Link,
     OSLinks      |-> m.OSLinks,
     Dependencies |-> IF ~patch.Dependencies.isNil THEN patch.Dependencies
                      ELSE m.Dependencies,
     Repository   |-> IF patch.Repository # "" THEN patch.Repository
                      ELSE m.Repository]

\* strings.Split(s, ","): the pieces of s between its commas.
RECURSIVE SplitAtCommas(_, _)
SplitAtCommas(s, piece) ==
    IF s = <<>> THEN <<piece>>
    ELSE IF Head(s) = "," THEN <<piece>> \o SplitAtCommas(Tail(s), <<>>)
    ELSE SplitAtCommas(Tail(s), Append(piece, Head(s)))

\* publish: what the -deps flag makes of the patch's Dependencies.
DependenciesFlag(deps) ==
    IF deps = <<"n", "o", "n", "e">> THEN Slice(<<>>)
    ELSE IF deps = <<>> THEN NilSlice
    ELSE Slice(SplitAtCommas(deps, <<>>))

OldPlatformSet ==
    [isNil |-> FALSE,
     Windows |-> [SHA256 |-> HexEncode(Sum256(<<1, 2>>)), URL |-> UrlWinZip],
     Mac     |-> EmptyLink,
     Linux   |-> [SHA256 |-> HexEncode(Sum256(<<2>>)), URL |-> UrlLinuxDLL]]

NewPlatformSet ==
    [isNil |-> FALSE,
     Windows |-> EmptyLink,
     Mac     |-> [SHA256 |-> HexEncode(Sum256(<<2, 1>>)), URL |-> UrlMacZip],
     Linux   |-> EmptyLink]

\* Records as a catalog holds them.
ExistingManifests ==
    { [Name |-> "M", Description |-> d, Version |-> "1.0.0.0",
       Link |-> [SHA256 |-> HashOfOne, URL |-> UrlAZip],
       OSLinks |-> o, Dependencies |-> deps, Repository |-> r] :
      d \in {"", "old text"}, o \in {NilOSLinks, OldPlatformSet},
      deps \in {NilSlice, Slice(<<>>), Slice(<< <<"X">> >>)},
      r \in {"", "old/repo"} }

\* Patches with every field written or left at its zero value.
Patches ==
    { [Name |-> n, Description |-> d, Version |-> v, Link |-> l,
       OSLinks |-> o, Dependencies |-> deps, Repository |-> r] :
      n \in {"M", "P"}, d \in {"", "new text"}, v \in {"", "2.0.0.0"},
      l \in {EmptyLink, [SHA256 |-> HexEncode(Sum256(<<2>>)), URL |-> UrlNoExt]},
      o \in {NilOSLinks, NewPlatformSet},
      deps \in { DependenciesFlag(f) :
                 f \in {<<>>, <<"n", "o", "n", "e">>, <<"Y", ",", "X">>} },
      r \in {"", "new/repo"} }

InitMerge ==
    /\ \E m \in ExistingManifests, patch \in Patches :
           merged = [pc |-> "call", m |-> m, patch |-> patch,
                     existing |-> m, once |-> m]
    /\ walk = Idle /\ picked = Idle /\ fetched = Idle /\ inst = Idle /\ pub = Idle /\ tree = Idle
    /\ names = <<>> /\ requestedName = <<>> /\ resolved = Pending
    /\ goos = "linux"
    /\ cache = [p \in CachePaths |-> AbsentFile]
    /\ last = NoCall
    /\ intact = [p \in CachePaths |-> NoMod]

\* m.Merge(manifestPatch), as publish calls it on the record it found.
MergeCall ==
    /\ merged.pc = "call"
    /\ LET m == Merge(merged.m, merged.patch)
       IN  merged' = [merged EXCEPT !.pc = "once", !.m = m, !.once = m]
    /\ UNCHANGED <<names, requestedName, resolved, goos, cache, last, intact,
                   walk, picked, fetched, inst, pub, tree>>

\* The same patch is merged into the record once more.
MergeAgain ==
    /\ merged.pc = "once"
    /\ merged' = [merged EXCEPT !.pc = "twice",
                                !.m = Merge(merged.m, merged.patch)]
    /\ UNCHANGED <<names, requestedName, resolved, goos, cache, last, intact,
                   walk, picked, fetched, inst, pub, tree>>

NextMerge == MergeCall \/ MergeAgain

SpecMerge == InitMerge /\ [][NextMerge]_vars

\* C20: Merge(existing, patch) takes version and default Link from patch
\* always; description and repository from patch when non-empty, else from
\* existing; dependencies from patch when specified (an empty list is
\* specified and clears them, an unspecified list keeps existing's); name
\* and per-platform links from existing always.  Merging the same patch a
\* second time changes nothing.
C20_Merge ==
    LET m        == merged.m
        existing == merged.existing
        patch    == merged.patch
    IN  /\ merged.pc # "call" =>
               /\ m.Version = patch.Version
               /\ m.Link = patch.Link
               /\ m.Description = (IF patch.Description = "" THEN existing.Description
                                   ELSE patch.Description)
               /\ m.Repository = (IF patch.Repository = "" THEN existing.Repository
                                  ELSE patch.Repository)
               /\ patch.Dependencies = NilSlice => m.Dependencies = existing.Dependencies
               /\ patch.Dependencies # NilSlice => m.Dependencies = patch.Dependencies
               /\ patch.Dependencies = Slice(<<>>) => m.Dependencies.list = <<>>
               /\ m.Name = existing.Name
               /\ m.OSLinks = existing.OSLinks
        /\ merged.pc = "twice" => m = merged.once

\* A record with dependencies and per-platform links took, twice, a patch
\* with another name, an empty version, an empty link and an empty list
\* of dependencies.
C20_Witness ==
    /\ merged.pc = "twice"
    /\ merged.existing.Dependencies = Slice(<< <<"X">> >>)
    /\ merged.existing.OSLinks = OldPlatformSet
    /\ merged.patch.Name = "P"
    /\ merged.patch.Version = ""
    /\ merged.patch.Link = EmptyLink
    /\ merged.patch.Dependencies = Slice(<<>>)
    /\ merged.patch.OSLinks = NewPlatformSet
    /\ merged.m.Dependencies = Slice(<<>>)


(***************************************************************************)
(* The four places that fetch a URL: modlinks.Get, downloadLink,           *)
(* sha256OfURL and installfile.  Each is given the server's answer; its    *)
(* result tells whether it read the answer's body.                         *)
(***************************************************************************)

\* What a server can answer: any status with any body, error pages
\* included; the stream may break after the bytes of body.
Answers ==
    { [getErr |-> TRUE, status |-> 0, body |-> <<>>, broken |-> FALSE, disk |-> "ok"] }
    \cup { [getErr |-> FALSE, status |-> c, body |-> b, broken |-> k, disk |-> "ok"] :
           c \in StatusCodes, b \in Contents, k \in BOOLEAN }

\* unicode.IsSpace, for the characters a catalog holds.
IsSpace(c) == c \in {" ", "\n", "\t", "\r"}

RECURSIVE TrimLeftSpace(_)
TrimLeftSpace(s) ==
    IF s # <<>> /\ IsSpace(Head(s)) THEN TrimLeftSpace(Tail(s)) ELSE s

RECURSIVE TrimRightSpace(_)
TrimRightSpace(s) ==
    IF s # <<>> /\ IsSpace(s[Len(s)]) THEN TrimRightSpace(SubSeq(s, 1, Len(s) - 1))
    ELSE s

\* strings.TrimSpace(s)
TrimSpace(s) == TrimRightSpace(TrimLeftSpace(s))

\* No pointer to a field of m.OSLinks can be made when m.OSLinks is nil.
trimPanics(m) == m.OSLinks.isNil

\* The record after trim, for a record it does not panic on.
trim(m) ==
    [m EXCEPT !.Link.URL = TrimSpace(@),
              !.OSLinks.Windows.URL = TrimSpace(@),
              !.OSLinks.Linux.URL = TrimSpace(@),
              !.OSLinks.Mac.URL = TrimSpace(@),
              !.Repository = TrimSpace(@)]

GetResult(err, read, value, manifests) ==
    [err |-> err, read |-> read, value |-> value, manifests |-> manifests]

\* modlinks.Get.  The bytes of a body stand for any document, so the
\* decoder may accept or reject them; it rejects an empty or broken
\* stream.  document is what the decoder makes of a body it accepts: the
\* records as written, a record's OSLinks nil when it has no Links
\* element.  The loop over the records then panics at the first one whose
\* OSLinks is nil (err "panic": the process dies in Get).
Get(resp, document) ==
    IF resp.getErr THEN {GetResult("http.Get", FALSE, <<>>, <<>>)}
    ELSE IF ~(resp.status >= 200 /\ resp.status < 300)
    THEN {GetResult("response status", FALSE, <<>>, <<>>)}
    ELSE {GetResult("xml", TRUE, <<>>, <<>>)}
         \cup (IF resp.broken \/ resp.body = <<>> THEN {}
               ELSE IF \E k \in DOMAIN document : trimPanics(document[k])
               THEN {GetResult("panic", TRUE, <<>>, <<>>)}
               ELSE {GetResult("nil", TRUE, resp.body,
                               [k \in DOMAIN document |-> trim(document[k])])})

sha256OfURL(resp) ==
    IF resp.getErr THEN [err |-> "http.Get", read |-> FALSE, value |-> <<>>]
    ELSE IF ~isHTTPOK(resp.status)
    THEN [err |-> "response status", read |-> FALSE, value |-> <<>>]
    ELSE IF resp.broken THEN [err |-> "Copy", read |-> TRUE, value |-> <<>>]
    ELSE [err |-> "nil", read |-> TRUE, value |-> HexEncode(Sum256(resp.body))]

\* regexp.MustCompile("^https?://").MatchString(source)
IsHTTPSource(source) ==
    \/ /\ Len(source) >= 7
       /\ SubSeq(source, 1, 7) = <<"h", "t", "t", "p", ":", "/", "/">>
    \/ /\ Len(source) >= 8
       /\ SubSeq(source, 1, 8) = <<"h", "t", "t", "p", "s", ":", "/", "/">>

\* installfile name source: the content comes from the URL's response or
\* from the file at the path (local); an archive is unpacked, which fails
\* for an empty content, and anything else becomes the mod's one file.
\* value is what was installed.
installfile(source, resp, local) ==
    LET install(content, read) ==
            IF Ext(source) = ZipExt /\ content = <<>>
            THEN [err |-> "extract mod", read |-> read, value |-> <<>>]
            ELSE [err |-> "nil", read |-> read, value |-> content]
    IN  IF IsHTTPSource(source)
        THEN IF resp.getErr THEN [err |-> "download", read |-> FALSE, value |-> <<>>]
             ELSE IF resp.broken THEN [err |-> "download", read |-> TRUE, value |-> <<>>]
             ELSE install(resp.body, TRUE)
        ELSE IF local.state # "file" THEN [err |-> "open", read |-> FALSE, value |-> <<>>]
             ELSE install(local.bytes, FALSE)

SourceHTTPDLL ==
    <<"h", "t", "t", "p", ":", "/", "/", "h", "/", "m", ".", "d", "l", "l">>

SourceHTTPSZip ==
    <<"h", "t", "t", "p", "s", ":", "/", "/", "h", "/", "m", ".", "z", "i", "p">>

SourceLocalDLL == <<"m", ".", "d", "l", "l">>

\* A URL as catalogs hold it, on a line of its own.
Indented(url) == <<"\n", " ", " ">> \o url \o <<"\n", " ">>

FetchManifest(name, link, oslinks) ==
    [Name |-> name, Link |-> link, OSLinks |-> oslinks, Dependencies |-> <<>>,
     Repository |-> Indented(<<"r">>)]

\* A record with a default Link and no Links element.
FetchDefaultOnly ==
    FetchManifest(<<"A">>, [SHA256 |-> ModA.Link.SHA256, URL |-> Indented(UrlAZip)],
                  NilOSLinks)

\* A record with a Links element and no default Link.
FetchPlatformOnly ==
    FetchManifest(<<"B">>, EmptyLink,
                  [isNil |-> FALSE,
                   Windows |-> [SHA256 |-> ModB.OSLinks.Windows.SHA256,
                                URL |-> Indented(UrlWinZip)],
                   Mac     |-> EmptyLink,
                   Linux   |-> [SHA256 |-> ModB.OSLinks.Linux.SHA256,
                                URL |-> Indented(UrlLinuxDLL)]])

\* What the decoder makes of the catalogs: up to MaxMods records.
FetchDocuments == SeqsUpTo({FetchDefaultOnly, FetchPlatformOnly}, MaxMods)

FetchIdle ==
    [pc |-> "call", who |-> "nobody", source |-> <<>>, resp |-> NoResponse,
     err |-> "nil", read |-> FALSE, value |-> <<>>,
     before |-> AbsentFile, after |-> AbsentFile,
     document |-> <<>>, manifests |-> <<>>]

InitFetch ==
    /\ fetched = FetchIdle
    /\ walk = Idle /\ picked = Idle /\ merged = Idle /\ inst = Idle /\ pub = Idle /\ tree = Idle
    /\ names = <<>> /\ requestedName = <<>> /\ resolved = Pending
    /\ goos = "linux"
    /\ cache = [p \in CachePaths |-> AbsentFile]
    /\ last = NoCall
    /\ intact = [p \in CachePaths |-> NoMod]

fetchOthers ==
    <<names, requestedName, resolved, goos, cache, last, intact,
      walk, picked, merged, inst, pub, tree>>

\* install, yeet's completion and the others load the catalog.
FetchCatalog ==
    /\ fetched.pc = "call"
    /\ \E resp \in Answers, document \in FetchDocuments :
           \E r \in Get(resp, document) :
               fetched' = [FetchIdle EXCEPT !.pc = "done", !.who = "Get",
                              !.resp = resp, !.err = r.err, !.read = r.read,
                              !.value = r.value, !.document = document,
                              !.manifests = r.manifests]
    /\ UNCHANGED fetchOthers

\* getModFile downloads a mod into a cache entry that is absent or stale.
FetchMod ==
    /\ fetched.pc = "call"
    /\ \E resp \in Answers, f \in {AbsentFile, RegularFile(<<1>>)} :
           LET localfile == <<"A", ".", "z", "i", "p">>
               r == downloadLinkGiven([p \in {localfile} |-> f], localfile, UrlAZip,
                                      Sum256(<<2>>), resp)
           IN  fetched' = [FetchIdle EXCEPT !.pc = "done", !.who = "downloadLink",
                              !.source = UrlAZip, !.resp = resp, !.err = r.err,
                              !.read = r.read, !.value = r.file.bytes,
                              !.before = f, !.after = r.fs[localfile]]
    /\ UNCHANGED fetchOthers

\* publish computes the hash of the file it is to link to.
FetchHash ==
    /\ fetched.pc = "call"
    /\ \E resp \in Answers :
           LET r == sha256OfURL(resp)
           IN  fetched' = [FetchIdle EXCEPT !.pc = "done", !.who = "sha256OfURL",
                              !.resp = resp, !.err = r.err, !.read = r.read,
                              !.value = r.value]
    /\ UNCHANGED fetchOthers

\* installfile installs from a URL or from a path.
FetchFile ==
    /\ fetched.pc = "call"
    /\ \E source \in {SourceHTTPDLL, SourceHTTPSZip, SourceLocalDLL} :
           \E resp \in (IF IsHTTPSource(source) THEN Answers ELSE {NoResponse}),
              local \in (IF IsHTTPSource(source) THEN {AbsentFile}
                         ELSE {AbsentFile, RegularFile(<<1>>)}) :
               LET r == installfile(source, resp, local)
               IN  fetched' = [FetchIdle EXCEPT !.pc = "done", !.who = "installfile",
                                  !.source = source, !.resp = resp, !.err = r.err,
                                  !.read = r.read, !.value = r.value,
                                  !.before = local]
    /\ UNCHANGED fetchOthers

NextFetch == FetchCatalog \/ FetchMod \/ FetchHash \/ FetchFile

SpecFetch == InitFetch /\ [][NextFetch]_vars

\* The fetch just made was answered, with a status outside 200..299.
AnsweredNotOK ==
    /\ fetched.pc = "done"
    /\ fetched.resp # NoResponse
    /\ ~fetched.resp.getErr
    /\ ~(fetched.resp.status >= 200 /\ fetched.resp.status <= 299)

\* C19: every fetch treats a non-2xx status as a terminal error: Get,
\* downloadLink, sha256OfURL and installfile from a URL all fail without
\* reading the response's body, and downloadLink fails before it creates
\* or truncates the cache file.
C19_NonOKStatusIsTerminal ==
    AnsweredNotOK =>
        /\ fetched.err # "nil"
        /\ ~fetched.read
        /\ fetched.value = <<>>
        /\ fetched.who = "downloadLink" => fetched.after = fetched.before

\* The same, for the three fetches other than installfile.
C19_OthersFail ==
    AnsweredNotOK /\ fetched.who # "installfile" =>
        /\ fetched.err # "nil"
        /\ ~fetched.read
        /\ fetched.value = <<>>
        /\ fetched.who = "downloadLink" => fetched.after = fetched.before


\* Get has come to its end, one way or another.
GetDone == fetched.pc = "done" /\ fetched.who = "Get"

\* The body was a catalog the decoder accepted.
GetDecoded == GetDone /\ fetched.err \in {"nil", "panic"}

\* The record comes back with its URLs and repository trimmed and the rest
\* as the catalog has it.
Loaded(m, d) ==
    /\ m.Name = d.Name
    /\ m.Link = [d.Link EXCEPT !.URL = TrimSpace(@)]
    /\ m.OSLinks.isNil = d.OSLinks.isNil
    /\ m.OSLinks.Windows = [d.OSLinks.Windows EXCEPT !.URL = TrimSpace(@)]
    /\ m.OSLinks.Mac = [d.OSLinks.Mac EXCEPT !.URL = TrimSpace(@)]
    /\ m.OSLinks.Linux = [d.OSLinks.Linux EXCEPT !.URL = TrimSpace(@)]
    /\ m.Repository = TrimSpace(d.Repository)

\* C29: loading a well-formed catalog never crashes: a record with only a
\* default Link and no per-platform set comes back with its URL trimmed
\* and its set absent, and the other records of the catalog come back too.
C29_LoadNeverCrashes ==
    GetDecoded =>
        /\ fetched.err = "nil"
        /\ Len(fetched.manifests) = Len(fetched.document)
        /\ \A k \in DOMAIN fetched.document :
               Loaded(fetched.manifests[k], fetched.document[k])

\* The same, for the catalogs whose records all have a Links element.
C29_WhenEveryRecordHasLinks ==
    (GetDecoded /\ \A k \in DOMAIN fetched.document :
                       ~fetched.document[k].OSLinks.isNil) =>
        /\ fetched.err = "nil"
        /\ Len(fetched.manifests) = Len(fetched.document)
        /\ \A k \in DOMAIN fetched.document :
               Loaded(fetched.manifests[k], fetched.document[k])

\* A catalog of two records with Links elements was loaded.
LoadedWithLinks ==
    /\ GetDone /\ fetched.err = "nil"
    /\ fetched.document = <<FetchPlatformOnly, FetchPlatformOnly>>
    /\ fetched.manifests[1].OSLinks.Linux.URL = UrlLinuxDLL

(***************************************************************************)
(* The install command.  The loop over the arguments and the loop over the *)
(* downloads take one iteration per step; the Mods directory has, for each *)
(* mod, what is installed of it.                                           *)
(***************************************************************************)
MaxArgs == 2

\* strings.ContainsRune(s, c)
ContainsRune(s, c) == \E k \in DOMAIN s : s[k] = c

\* filepath.Separator of the build.
Separator == IF goos = "windows" THEN "\\" ELSE "/"

RECURSIVE StripTrailingSlashes(_)
StripTrailingSlashes(p) ==
    IF p # <<>> /\ p[Len(p)] = "/" THEN StripTrailingSlashes(SubSeq(p, 1, Len(p) - 1))
    ELSE p

RECURSIVE AfterLastSlash(_, _)
AfterLastSlash(p, i) ==
    IF i < 1 \/ p[i] = "/" THEN SubSeq(p, i + 1, Len(p))
    ELSE AfterLastSlash(p, i - 1)

\* path.Base: the last element of the path; "." for the empty path and "/"
\* for a path of slashes only.
Base(p) ==
    IF p = <<>> THEN <<".">>
    ELSE LET q == StripTrailingSlashes(p)
         IN  IF q = <<>> THEN <<"/">> ELSE AfterLastSlash(q, Len(q))

\* resolveMod: resolveModName on the names of the catalog.
resolveMod(ms, requested) ==
    resolveModName([k \in DOMAIN ms |-> ms[k].Name], requested)

\* What is installed of a mod: nothing, the version installed earlier, what
\* a failed removal or extraction left, or the file just extracted (file is
\* the name it was written under, for a single-file mod).
NotInstalled == [state |-> "none", file |-> <<>>, bytes |-> <<>>]

OldVersion == [state |-> "old", file |-> <<>>, bytes |-> <<>>]

Damaged == [state |-> "damaged", file |-> <<>>, bytes |-> <<>>]

\* removePreviousVersion: os.RemoveAll succeeds, or fails having removed
\* nothing or a part.
removePreviousVersion(name, mods) ==
    { [err |-> "nil", mods |-> [mods EXCEPT ![name] = NotInstalled]],
      [err |-> "yeet installed version", mods |-> mods],
      [err |-> "yeet installed version",
       mods |-> [mods EXCEPT ![name] = IF @ = NotInstalled THEN @ ELSE Damaged]] }

\* extractModZip and extractModDLL: the file's bytes end up below the mod's
\* directory, or the extraction fails and leaves a part.
extractMod(file, filename, name, mods) ==
    { [err |-> "nil",
       mods |-> [mods EXCEPT ![name] =
                    [state |-> "new",
                     file  |-> IF file.IsZIP THEN <<>> ELSE filename,
                     bytes |-> file.bytes]]],
      [err |-> "extract mod", mods |-> [mods EXCEPT ![name] = Damaged]] }

\* The body of the loop with the previous version removed before the
\* file is fetched.
installOneRemovingFirst(dl, fs, mods) ==
    IF ContainsRune(dl.Name, Separator)
    THEN {[fs |-> fs, mods |-> mods, err |-> "contains path separator",
           tried |-> FALSE]}
    ELSE IF ContainsRune(Base(dl.Link.URL), Separator)
    THEN {[fs |-> fs, mods |-> mods, err |-> "filename contains path separator",
           tried |-> FALSE]}
    ELSE UNION {
        IF rm.err # "nil"
        THEN {[fs |-> fs, mods |-> rm.mods, err |-> rm.err, tried |-> FALSE]}
        ELSE UNION {
            IF g.err # "nil"
            THEN {[fs |-> g.fs, mods |-> rm.mods, err |-> g.err, tried |-> TRUE]}
            ELSE { [fs |-> g.fs, mods |-> x.mods, err |-> x.err, tried |-> TRUE] :
                   x \in extractMod(g.file, Base(dl.Link.URL), dl.Name, rm.mods) } :
            g \in getModFile(fs, dl) } :
        rm \in removePreviousVersion(dl.Name, mods) }

\* The body of install's loop over the downloads, for the record dl: every
\* way it can end, with the stage that failed (err) and whether the record
\* went as far as getModFile (tried).
installOne(dl, fs, mods) ==
    IF ContainsRune(dl.Name, Separator)
    THEN {[fs |-> fs, mods |-> mods, err |-> "contains path separator",
           tried |-> FALSE]}
    ELSE IF ContainsRune(Base(dl.Link.URL), Separator)
    THEN {[fs |-> fs, mods |-> mods, err |-> "filename contains path separator",
           tried |-> FALSE]}
    ELSE UNION {
        IF g.err # "nil"
        THEN {[fs |-> g.fs, mods |-> mods, err |-> g.err, tried |-> TRUE]}
        ELSE UNION {
            IF rm.err # "nil"
            THEN {[fs |-> g.fs, mods |-> rm.mods, err |-> rm.err, tried |-> TRUE]}
            ELSE { [fs |-> g.fs, mods |-> x.mods, err |-> x.err, tried |-> TRUE] :
                   x \in extractMod(g.file, Base(dl.Link.URL), dl.Name, rm.mods) } :
            rm \in removePreviousVersion(dl.Name, mods) } :
        g \in getModFile(fs, dl) }

InstallManifest(name, link, oslinks, deps) ==
    [Name |-> name, Link |-> link, OSLinks |-> oslinks, Dependencies |-> deps,
     Repository |-> <<>>]

\* A needs B; B has per-platform links only; C needs a mod that is in no
\* catalog.  A and C have an empty Links element, P has none.
InstallA ==
    InstallManifest(<<"A">>, ModA.Link, ZeroOSLinks, << <<"B">> >>)

InstallB == InstallManifest(<<"B">>, EmptyLink, ModB.OSLinks, <<>>)

InstallC ==
    InstallManifest(<<"C">>, [SHA256 |-> HexEncode(Sum256(<<2>>)), URL |-> UrlNoExt],
                    ZeroOSLinks, << <<"Z">> >>)

InstallP == InstallManifest(<<"P">>, ModA.Link, NilOSLinks, <<>>)

\* A record C whose hash is no hexadecimal string.
InstallCBadHex == InstallManifest(<<"C">>, ModBadHex.Link, ZeroOSLinks, <<>>)

InstallCatalogs ==
    { <<InstallA, InstallB>>, <<InstallA, InstallB, InstallC>>,
      <<InstallB, InstallP>>, <<InstallB, InstallCBadHex>> }

InstallRequests == { <<"a">>, <<"b">>, <<"c">>, <<"x">>, <<>> }

InstallCachePaths ==
    UNION { { m.Name \o Ext(l.URL) : l \in LinksOf(m) } :
            m \in {InstallA, InstallB, InstallC, InstallCBadHex} }

InstallStart(manifests, args) ==
    [pc |-> "load", manifests |-> manifests, args |-> args, i |-> 1,
     resolvedMods |-> <<>>, downloads |-> <<>>, missing |-> NilError, j |-> 1,
     mods |-> [k \in { manifests[n].Name : n \in DOMAIN manifests } |-> OldVersion],
     log |-> <<>>, ret |-> "running"]

InitInstall ==
    /\ \E manifests \in InstallCatalogs, args \in SeqsUpTo(InstallRequests, MaxArgs) :
           inst = InstallStart(manifests, args)
    /\ goos \in GOOSes
    /\ cache \in { [p \in InstallCachePaths |-> AbsentFile],
                   [p \in InstallCachePaths |->
                       IF p = <<"A">> \o ZipExt THEN RegularFile(<<1, 2>>)
                       ELSE AbsentFile] }
    /\ LibIdle /\ pub = Idle /\ tree = Idle
    /\ names = <<>> /\ requestedName = <<>> /\ resolved = Pending
    /\ last = NoCall
    /\ intact = [p \in CachePaths |-> NoMod]

installOthers ==
    <<names, requestedName, resolved, goos, last, intact, libVars, pub, tree>>

\* manifests, err := modlinks.Get(modlinksURL())
InstallLoad ==
    /\ inst.pc = "load"
    /\ \E resp \in Answers :
           \E r \in Get(resp, inst.manifests) :
               inst' = IF r.err = "panic"
                       THEN [inst EXCEPT !.pc = "crashed", !.ret = r.err]
                       ELSE IF r.err # "nil"
                       THEN [inst EXCEPT !.pc = "returned", !.ret = r.err]
                       ELSE [inst EXCEPT !.pc = "resolve", !.manifests = r.manifests]
    /\ UNCHANGED <<cache, installOthers>>

\* One iteration of the loop over args.
InstallResolve ==
    /\ inst.pc = "resolve"
    /\ inst.i <= Len(inst.args)
    /\ LET requestedName_ == inst.args[inst.i]
           r == resolveMod(inst.manifests, requestedName_)
       IN  inst' = [inst EXCEPT
                       !.i = @ + 1,
                       !.resolvedMods = IF r.kind = "name" THEN Append(@, r.name)
                                        ELSE @,
                       !.log = Append(@, [ev |-> "resolve", name |-> requestedName_,
                                          err |-> IF r.kind = "name" THEN "nil"
                                                  ELSE r.kind])]
    /\ UNCHANGED <<cache, installOthers>>

\* downloads, err := modlinks.TransitiveClosure(manifests, resolvedMods)
\* and the test of err that follows.
InstallClosure ==
    /\ inst.pc = "resolve"
    /\ inst.i > Len(inst.args)
    /\ \E r \in TransitiveClosure(inst.manifests, inst.resolvedMods) :
           inst' = IF ~r.err.isNil
                   THEN [inst EXCEPT !.pc = "returned", !.downloads = r.result,
                                     !.missing = r.err, !.ret = "missing mods"]
                   ELSE [inst EXCEPT !.pc = "download", !.downloads = r.result]
    /\ UNCHANGED <<cache, installOthers>>

\* One iteration of the loop over downloads.
InstallDownload ==
    /\ inst.pc = "download"
    /\ inst.j <= Len(inst.downloads)
    /\ LET dl == inst.downloads[inst.j]
       IN  \E r \in installOne(dl, cache, inst.mods) :
               /\ cache' = r.fs
               /\ inst' = [inst EXCEPT
                              !.j = @ + 1,
                              !.mods = r.mods,
                              !.log = Append(@, [ev |-> "attempt", name |-> dl.Name,
                                                 err |-> r.err])]
    /\ UNCHANGED installOthers

\* return nil
InstallReturn ==
    /\ inst.pc = "download"
    /\ inst.j > Len(inst.downloads)
    /\ inst' = [inst EXCEPT !.pc = "returned", !.ret = "nil"]
    /\ UNCHANGED <<cache, installOthers>>

NextInstall ==
    InstallLoad \/ InstallResolve \/ InstallClosure \/ InstallDownload \/ InstallReturn

SpecInstall == InitInstall /\ [][NextInstall]_vars


(***************************************************************************)
(* What install promises about a batch, stated on its log.                 *)
(***************************************************************************)
InstallReturned == inst # Idle /\ inst.pc = "returned"

\* The catalog was loaded and the run went through all its arguments.
InstallResolvedAll == InstallReturned /\ inst.ret \in {"nil", "missing mods"}

\* The events of the log of one kind, in order.
Events(ev) == SelectSeq(inst.log, LAMBDA e : e.ev = ev)

\* How many times the loop over the downloads took up the record name.
Attempts(name) ==
    Cardinality({ k \in DOMAIN inst.log :
                    inst.log[k].ev = "attempt" /\ inst.log[k].name = name })

\* C15: when the dependency closure reports missing dependencies, install
\* reports the failure and still takes up every record that did resolve:
\* the batch is not aborted.
C15_MissingDependenciesDoNotAbort ==
    (InstallReturned /\ ~inst.missing.isNil) =>
        \A k \in DOMAIN inst.downloads : Attempts(inst.downloads[k].Name) = 1

\* C16: install never short-circuits on a failure of one item: every
\* requested name is passed to the resolver, in order, whatever happened to
\* the names before it; a name that fails is reported and left out; every
\* record of the closure is taken up exactly once, whatever happened to the
\* records before it.
C16_NoShortCircuit ==
    InstallResolvedAll =>
        /\ [k \in DOMAIN Events("resolve") |-> Events("resolve")[k].name] = inst.args
        /\ inst.resolvedMods =
               LET ok == SelectSeq(Events("resolve"), LAMBDA e : e.err = "nil")
               IN  [k \in DOMAIN ok |->
                       resolveMod(inst.manifests, ok[k].name).name]
        /\ \A k \in DOMAIN inst.downloads : Attempts(inst.downloads[k].Name) = 1

\* The same, for the runs whose closure has no missing name: these go
\* through both loops to the end.
C16_WhenNothingIsMissing ==
    (InstallResolvedAll /\ inst.missing.isNil) =>
        /\ [k \in DOMAIN Events("resolve") |-> Events("resolve")[k].name] = inst.args
        /\ inst.ret = "nil"
        /\ [k \in DOMAIN Events("attempt") |-> Events("attempt")[k].name]
               = [k \in DOMAIN inst.downloads |-> inst.downloads[k].Name]


\* The ways getModFile fails: at the selection of the link, at the decoding
\* of its hash, at the cache entry, in the transport, at the comparison of
\* the digest.
SelectionErrors ==
    {"no general or platform-specific link specified", "unsupported OS"}

TransportErrors == {"http.Get", "response status", "MkdirAll", "Create", "Copy"}

GetModFileErrors ==
    SelectionErrors \cup TransportErrors
        \cup {"hex.DecodeString", "read cache entry", "sha256 does not match manifest"}

\* The loop over the downloads takes up one record in this step.
DownloadStep == inst.pc = "download" /\ inst'.pc = "download" /\ inst'.j = inst.j + 1

\* C27: the previous version of a mod is removed only after its file has
\* been obtained and its digest verified: a failure at link selection,
\* hash decoding, transport or integrity leaves what is installed as it
\* was, and what is installed changes only for the record taken up, with a
\* file of the expected digest in its cache entry.
C27_RemovedOnlyAfterVerified ==
    [][DownloadStep =>
           LET dl    == inst.downloads[inst.j]
               sel   == selectLink(dl)
               dec   == HexDecodeString(sel.link.SHA256)
               entry == dl.Name \o Ext(sel.link.URL)
               err   == inst'.log[Len(inst'.log)].err
           IN  /\ err \in GetModFileErrors => inst'.mods = inst.mods
               /\ \A n \in DOMAIN inst.mods :
                      inst'.mods[n] # inst.mods[n] =>
                          /\ n = dl.Name
                          /\ sel.err = "nil" /\ dec.ok
                          /\ cache'[entry].state = "file"
                          /\ Sum256(cache'[entry].bytes) = dec.bytes]_vars

\* The attempts of the log that ended with one of errs left the record's
\* earlier version installed.
KeptAfter(errs) ==
    \E k \in DOMAIN inst.log :
        /\ inst.log[k].ev = "attempt"
        /\ inst.log[k].err \in errs
        /\ inst.mods[inst.log[k].name] = OldVersion

\* In one run, a download whose digest did not match left A's earlier
\* version installed, and B's was replaced by the file fetched.
C27_Witness ==
    /\ inst # Idle /\ inst.pc = "returned" /\ inst.ret = "nil"
    /\ KeptAfter({"sha256 does not match manifest"})
    /\ \E n \in DOMAIN inst.mods : inst.mods[n].state = "new"

KeptAfterSelection == inst # Idle /\ inst.pc = "returned" /\ KeptAfter(SelectionErrors)

KeptAfterDecoding == inst # Idle /\ inst.pc = "returned" /\ KeptAfter({"hex.DecodeString"})

KeptAfterTransport == inst # Idle /\ inst.pc = "returned" /\ KeptAfter(TransportErrors)

\* The records of the catalog with an empty default Link whose file this
\* run installed: they were installed through a per-platform Link.
InstalledThroughPlatformLink ==
    { k \in DOMAIN inst.manifests :
        /\ inst.manifests[k].Link = EmptyLink
        /\ inst.mods[inst.manifests[k].Name].state = "new" }

\* C30: for a record installed through a per-platform Link, the cache
\* entry's extension, the choice between archive and single file, and the
\* name of the installed file all come from the URL of the selected
\* platform Link.
C30_PlatformLinkUsedThroughout ==
    inst.pc \in {"download", "returned"} =>
        \A k \in InstalledThroughPlatformLink :
            LET dl        == inst.manifests[k]
                link      == selectLink(dl).link
                installed == inst.mods[dl.Name]
            IN  /\ cache[dl.Name \o Ext(link.URL)] = RegularFile(installed.bytes)
                /\ (installed.file = <<>>) = (Ext(link.URL) = ZipExt)
                /\ Ext(link.URL) # ZipExt => installed.file = Base(link.URL)

\* The same, for the cache entry and the choice between archive and single
\* file.
C30_CacheEntryAndArchive ==
    inst.pc \in {"download", "returned"} =>
        \A k \in InstalledThroughPlatformLink :
            LET dl        == inst.manifests[k]
                link      == selectLink(dl).link
                installed == inst.mods[dl.Name]
            IN  /\ cache[dl.Name \o Ext(link.URL)] = RegularFile(installed.bytes)
                /\ (installed.file = <<>>) = (Ext(link.URL) = ZipExt)

\* What extractModDLL is given as the file's name for such a record: the
\* base of the empty default URL.
C30_InstalledUnderDot ==
    inst.pc \in {"download", "returned"} =>
        \A k \in InstalledThroughPlatformLink :
            Ext(selectLink(inst.manifests[k]).link.URL) # ZipExt =>
                inst.mods[inst.manifests[k].Name].file = <<".">>

\* B was installed from its Linux link, a single file.
PlatformFileInstalled ==
    /\ inst # Idle /\ inst.pc = "returned" /\ goos = "linux"
    /\ InstalledThroughPlatformLink # {}

\* B was installed from its Windows link, an archive.
PlatformArchiveInstalled ==
    /\ inst # Idle /\ inst.pc = "returned" /\ goos = "windows"
    /\ InstalledThroughPlatformLink # {}

(***************************************************************************)
(* The publish command.  The modlinks file is a sequence of symbols, each  *)
(* counted as one byte: a tag, a piece of a tag with an attribute, a       *)
(* character of text, an entity, a line break or a run of spaces.          *)
(***************************************************************************)
MaxBlocks == 2

\* The first position from i on where the symbol sym stands, 0 when there
\* is none.
RECURSIVE IndexFrom(_, _, _)
IndexFrom(b, sym, i) ==
    IF i > Len(b) THEN 0
    ELSE IF b[i] = sym THEN i
    ELSE IndexFrom(b, sym, i + 1)

\* regexp (?s)<Manifest>.*?</Manifest>, FindAllIndex from position i on:
\* the leftmost start tag, then the nearest end tag after it, then the same
\* again behind that end tag.  A block is [from, to], both inside.
RECURSIVE FindAllBlocks(_, _)
FindAllBlocks(content, i) ==
    LET from == IndexFrom(content, "<Manifest>", i)
        to   == IF from = 0 THEN 0 ELSE IndexFrom(content, "</Manifest>", from + 1)
    IN  IF from = 0 \/ to = 0 THEN <<>>
        ELSE <<[from |-> from, to |-> to]>> \o FindAllBlocks(content, to + 1)

\* bytes.Contains(b, subslice)
Contains(b, subslice) ==
    \E i \in 1..(Len(b) - Len(subslice) + 1) :
        SubSeq(b, i, i + Len(subslice) - 1) = subslice

\* namePattern := []byte(`<Name>` + manifestPatch.Name + `</Name>`)
\* The name alone, without the tags around it.
NamePatternBare(name) == name

NamePattern(name) == <<"<Name>">> \o name \o <<"</Name>">>

IsSpaces(sym) == sym \in {" ", "    "}

\* bytes.TrimLeft(b, " ")
RECURSIVE TrimLeftSpaces(_)
TrimLeftSpaces(b) ==
    IF b # <<>> /\ IsSpaces(Head(b)) THEN TrimLeftSpaces(Tail(b)) ELSE b


\* The symbols that are markup; every other symbol is text, except a bare
\* "&" or "<", which no document may hold.
TagSymbols ==
    { "<Manifest>", "</Manifest>", "<Name>", "</Name>",
      "<Description>", "</Description>", "<Version>", "</Version>",
      "<Link SHA256=\"", "\">", "</Link>",
      "<Links>", "</Links>",
      "<Windows SHA256=\"", "</Windows>", "<Mac SHA256=\"", "</Mac>",
      "<Linux SHA256=\"", "</Linux>",
      "<Dependencies>", "</Dependencies>", "<Dependency>", "</Dependency>",
      "<Repository>", "</Repository>" }

IsText(sym) == sym \notin TagSymbols /\ sym \notin {"&", "<"}

\* A character of text as the decoder delivers it and as the encoder
\* writes it.
Unescape(sym) ==
    IF sym = "&amp;" THEN "&"
    ELSE IF sym = "&lt;" THEN "<"
    ELSE IF sym = "&gt;" THEN ">"
    ELSE sym

EscapeText(c) ==
    IF c = "&" THEN "&amp;"
    ELSE IF c = "<" THEN "&lt;"
    ELSE IF c = ">" THEN "&gt;"
    ELSE c

\* The text of a field whose characters matter: a sequence of characters.
DecodeChars(run) == [k \in DOMAIN run |-> Unescape(run[k])]

EncodeChars(chars) == [k \in DOMAIN chars |-> EscapeText(chars[k])]

\* The text of a field that is taken whole: a string.
RECURSIVE DecodeString(_)
DecodeString(run) ==
    IF run = <<>> THEN "" ELSE Unescape(Head(run)) \o DecodeString(Tail(run))

EncodeString(str) == IF Len(str) = 0 THEN <<>> ELSE <<str>>

\* The run of text from position i up to the symbol close: where close
\* stands (0 when the text is cut short by the end or by markup).
RECURSIVE TextEnd(_, _, _)
TextEnd(b, close, i) ==
    IF i > Len(b) THEN 0
    ELSE IF b[i] = close THEN i
    ELSE IF IsText(b[i]) THEN TextEnd(b, close, i + 1)
    ELSE 0

ZeroManifest ==
    [Name |-> <<>>, Description |-> "", Version |-> "", Link |-> EmptyLink,
     OSLinks |-> NilOSLinks, Dependencies |-> NilSlice, Repository |-> ""]

ParseFailed == [ok |-> FALSE, m |-> ZeroManifest]

\* The Dependency elements from position i up to </Dependencies>: the
\* names, and where the end tag stands (0 for a syntax error).
RECURSIVE ParseDependencies(_, _, _)
ParseDependencies(b, i, list) ==
    IF i > Len(b) THEN [to |-> 0, list |-> list]
    ELSE IF b[i] = "</Dependencies>" THEN [to |-> i, list |-> list]
    ELSE IF b[i] = "<Dependency>"
    THEN LET j == TextEnd(b, "</Dependency>", i + 1)
         IN  IF j = 0 THEN [to |-> 0, list |-> list]
             ELSE ParseDependencies(b, j + 1,
                      Append(list, DecodeChars(SubSeq(b, i + 1, j - 1))))
    ELSE IF IsText(b[i]) THEN ParseDependencies(b, i + 1, list)
    ELSE [to |-> 0, list |-> list]

\* The Link-like element that starts at position i with its SHA256
\* attribute and ends with the tag close: its value and where close stands
\* (0 for a syntax error).
ParseLink(b, i, close) ==
    LET q == TextEnd(b, "\">", i + 1)
        j == IF q = 0 THEN 0 ELSE TextEnd(b, close, q + 1)
    IN  IF j = 0 THEN [to |-> 0, link |-> EmptyLink]
        ELSE [to |-> j,
              link |-> [SHA256 |-> DecodeChars(SubSeq(b, i + 1, q - 1)),
                        URL    |-> DecodeChars(SubSeq(b, q + 1, j - 1))]]

\* The elements of Links from position i up to </Links>.
RECURSIVE ParseLinks(_, _, _)
ParseLinks(b, i, set) ==
    IF i > Len(b) THEN [to |-> 0, set |-> set]
    ELSE IF b[i] = "</Links>" THEN [to |-> i, set |-> set]
    ELSE IF b[i] = "<Windows SHA256=\""
    THEN LET l == ParseLink(b, i, "</Windows>")
         IN  IF l.to = 0 THEN [to |-> 0, set |-> set]
             ELSE ParseLinks(b, l.to + 1, [set EXCEPT !.Windows = l.link])
    ELSE IF b[i] = "<Mac SHA256=\""
    THEN LET l == ParseLink(b, i, "</Mac>")
         IN  IF l.to = 0 THEN [to |-> 0, set |-> set]
             ELSE ParseLinks(b, l.to + 1, [set EXCEPT !.Mac = l.link])
    ELSE IF b[i] = "<Linux SHA256=\""
    THEN LET l == ParseLink(b, i, "</Linux>")
         IN  IF l.to = 0 THEN [to |-> 0, set |-> set]
             ELSE ParseLinks(b, l.to + 1, [set EXCEPT !.Linux = l.link])
    ELSE IF IsText(b[i]) THEN ParseLinks(b, i + 1, set)
    ELSE [to |-> 0, set |-> set]

\* The elements of a Manifest from position i on, up to its end tag, which
\* must be the last symbol.
RECURSIVE ParseFields(_, _, _)
ParseFields(b, i, m) ==
    IF i > Len(b) THEN ParseFailed
    ELSE IF b[i] = "</Manifest>"
    THEN IF i = Len(b) THEN [ok |-> TRUE, m |-> m] ELSE ParseFailed
    ELSE IF b[i] = "<Name>"
    THEN LET j == TextEnd(b, "</Name>", i + 1)
         IN  IF j = 0 THEN ParseFailed
             ELSE ParseFields(b, j + 1,
                      [m EXCEPT !.Name = DecodeChars(SubSeq(b, i + 1, j - 1))])
    ELSE IF b[i] = "<Description>"
    THEN LET j == TextEnd(b, "</Description>", i + 1)
         IN  IF j = 0 THEN ParseFailed
             ELSE ParseFields(b, j + 1,
                      [m EXCEPT !.Description = DecodeString(SubSeq(b, i + 1, j - 1))])
    ELSE IF b[i] = "<Version>"
    THEN LET j == TextEnd(b, "</Version>", i + 1)
         IN  IF j = 0 THEN ParseFailed
             ELSE ParseFields(b, j + 1,
                      [m EXCEPT !.Version = DecodeString(SubSeq(b, i + 1, j - 1))])
    ELSE IF b[i] = "<Repository>"
    THEN LET j == TextEnd(b, "</Repository>", i + 1)
         IN  IF j = 0 THEN ParseFailed
             ELSE ParseFields(b, j + 1,
                      [m EXCEPT !.Repository = DecodeString(SubSeq(b, i + 1, j - 1))])
    ELSE IF b[i] = "<Link SHA256=\""
    THEN LET l == ParseLink(b, i, "</Link>")
         IN  IF l.to = 0 THEN ParseFailed
             ELSE ParseFields(b, l.to + 1, [m EXCEPT !.Link = l.link])
    ELSE IF b[i] = "<Links>"
    THEN LET o == ParseLinks(b, i + 1,
                             IF m.OSLinks.isNil THEN ZeroOSLinks ELSE m.OSLinks)
         IN  IF o.to = 0 THEN ParseFailed
             ELSE ParseFields(b, o.to + 1, [m EXCEPT !.OSLinks = o.set])
    ELSE IF b[i] = "<Dependencies>"
    THEN LET d == ParseDependencies(b, i + 1,
                                    IF m.Dependencies.isNil THEN <<>>
                                    ELSE m.Dependencies.list)
         IN  IF d.to = 0 THEN ParseFailed
             ELSE ParseFields(b, d.to + 1,
                      [m EXCEPT !.Dependencies =
                          IF d.list = <<>> THEN @ ELSE Slice(d.list)])
    ELSE IF IsText(b[i]) THEN ParseFields(b, i + 1, m)
    ELSE ParseFailed

\* modlinks.ParseManifest: xml.Unmarshal of one block into a Manifest.
ParseManifest(text) ==
    IF text = <<>> \/ Head(text) # "<Manifest>" THEN ParseFailed
    ELSE ParseFields(text, 2, ZeroManifest)

EncodeLink(tag, close, link) ==
    <<tag>> \o EncodeChars(link.SHA256) \o <<"\">">>
        \o EncodeChars(link.URL) \o <<close>>

RECURSIVE EncodeDependencies(_)
EncodeDependencies(list) ==
    IF list = <<>> THEN <<>>
    ELSE <<"    ", "    ", "    ", "<Dependency>">> \o EncodeChars(Head(list))
             \o <<"</Dependency>", "\n">> \o EncodeDependencies(Tail(list))

\* modlinks.EncodeManifest: xml.MarshalIndent(m, "    ", "    "); every
\* line starts with the prefix and one indent for each level.
EncodeManifest(m) ==
    <<"    ", "<Manifest>", "\n">>
    \o <<"    ", "    ", "<Name>">> \o EncodeChars(m.Name) \o <<"</Name>", "\n">>
    \o <<"    ", "    ", "<Description>">> \o EncodeString(m.Description)
        \o <<"</Description>", "\n">>
    \o <<"    ", "    ", "<Version>">> \o EncodeString(m.Version)
        \o <<"</Version>", "\n">>
    \o <<"    ", "    ">> \o EncodeLink("<Link SHA256=\"", "</Link>", m.Link) \o <<"\n">>
    \o (IF m.OSLinks.isNil THEN <<>>
        ELSE <<"    ", "    ", "<Links>", "\n">>
             \o <<"    ", "    ", "    ">>
             \o EncodeLink("<Windows SHA256=\"", "</Windows>", m.OSLinks.Windows)
             \o <<"\n", "    ", "    ", "    ">>
             \o EncodeLink("<Mac SHA256=\"", "</Mac>", m.OSLinks.Mac)
             \o <<"\n", "    ", "    ", "    ">>
             \o EncodeLink("<Linux SHA256=\"", "</Linux>", m.OSLinks.Linux)
             \o <<"\n", "    ", "    ", "</Links>", "\n">>)
    \o (IF m.Dependencies.list = <<>> THEN <<>>
        ELSE <<"    ", "    ", "<Dependencies>", "\n">>
             \o EncodeDependencies(m.Dependencies.list)
             \o <<"    ", "    ", "</Dependencies>", "\n">>)
    \o <<"    ", "    ", "<Repository>">> \o EncodeString(m.Repository)
        \o <<"</Repository>", "\n">>
    \o <<"    ", "</Manifest>">>


(***************************************************************************)
(* The modlinks file under publish: its bytes, the offset of the next      *)
(* write, and the operations publish performs on it.  disk names the one   *)
(* operation the disk refuses ("ok" when it refuses none); a refused       *)
(* Write writes nothing.                                                   *)
(***************************************************************************)

DiskFailures == {"ok", "open", "read", "seek", "truncate", "write1", "write2"}

RECURSIVE Zeros(_)
Zeros(n) == IF n <= 0 THEN <<>> ELSE <<"\\0">> \o Zeros(n - 1)

\* (*os.File).Truncate(size)
Truncate(bytes, size) ==
    IF size <= Len(bytes) THEN SubSeq(bytes, 1, size)
    ELSE bytes \o Zeros(size - Len(bytes))

\* (*os.File).Write(b) with off bytes of the file before the offset.
WriteAt(bytes, off, b) ==
    SubSeq(bytes, 1, off) \o b
        \o (IF Len(bytes) > off + Len(b)
            THEN SubSeq(bytes, off + Len(b) + 1, Len(bytes)) ELSE <<>>)

\* strings.TrimSuffix(s, suffix)
TrimSuffix(s, suffix) ==
    IF Len(suffix) <= Len(s) /\ SubSeq(s, Len(s) - Len(suffix) + 1, Len(s)) = suffix
    THEN SubSeq(s, 1, Len(s) - Len(suffix))
    ELSE s

PublishResult(err, file, path, from, to, newContent) ==
    [err |-> err, file |-> file, path |-> path, from |-> from, to |-> to,
     newContent |-> newContent]

\* The record is rewritten without the file being cut to its new length.
publishUpdateNoTruncate(content, patch, disk, from, to) ==
    LET parsed     == ParseManifest(SubSeq(content, from, to))
        newContent == TrimLeftSpaces(EncodeManifest(Merge(parsed.m, patch)))
        tail       == SubSeq(content, to + 1, Len(content))
        written    == WriteAt(content, from - 1, newContent)
    IN  IF ~parsed.ok
        THEN PublishResult("xml", content, "update", from, to, <<>>)
        ELSE PublishResult("nil",
                           WriteAt(written, from - 1 + Len(newContent), tail),
                           "update", from, to, newContent)

\* The file is cut at the record before the record is parsed.
publishUpdateTruncatingFirst(content, patch, disk, from, to) ==
    LET parsed     == ParseManifest(SubSeq(content, from, to))
        newContent == TrimLeftSpaces(EncodeManifest(Merge(parsed.m, patch)))
        tail       == SubSeq(content, to + 1, Len(content))
        truncated  == Truncate(content, from - 1)
    IN  IF ~parsed.ok
        THEN PublishResult("xml", truncated, "update", from, to, <<>>)
        ELSE PublishResult("nil", truncated \o newContent \o tail,
                           "update", from, to, newContent)

\* The record found in the block [from, to] is rewritten in place.
publishUpdate(content, patch, disk, from, to) ==
    LET parsed     == ParseManifest(SubSeq(content, from, to))
        newContent == TrimLeftSpaces(EncodeManifest(Merge(parsed.m, patch)))
        tail       == SubSeq(content, to + 1, Len(content))
        size       == (from - 1) + Len(newContent) + (Len(content) - to)
        truncated  == Truncate(content, size)
        written    == WriteAt(truncated, from - 1, newContent)
    IN  IF ~parsed.ok
        THEN PublishResult("xml", content, "update", from, to, <<>>)
        ELSE IF disk = "seek"
        THEN PublishResult("seek", content, "update", from, to, newContent)
        ELSE IF disk = "truncate"
        THEN PublishResult("truncate", content, "update", from, to, newContent)
        ELSE IF disk = "write1"
        THEN PublishResult("write", truncated, "update", from, to, newContent)
        ELSE IF disk = "write2"
        THEN PublishResult("write", written, "update", from, to, newContent)
        ELSE PublishResult("nil",
                           WriteAt(written, from - 1 + Len(newContent), tail),
                           "update", from, to, newContent)

\* The patch becomes a new record at the end of the file.
publishAppendAtEnd(content, patch, disk, to) ==
    LET newContent == <<"\n">> \o EncodeManifest(patch)
    IN  PublishResult("nil", content \o newContent, "append", 0, to, newContent)

\* The patch becomes a new record after the last block, which ends at to.
publishAppend(content, patch, disk, to) ==
    LET newContent == <<"\n">> \o EncodeManifest(patch)
        tail       == SubSeq(content, to + 1, Len(content))
        written    == WriteAt(content, to, newContent)
    IN  IF disk = "seek"
        THEN PublishResult("seek", content, "append", 0, to, newContent)
        ELSE IF disk = "write1"
        THEN PublishResult("write", content, "append", 0, to, newContent)
        ELSE IF disk = "write2"
        THEN PublishResult("write", written, "append", 0, to, newContent)
        ELSE PublishResult("nil", WriteAt(written, to + Len(newContent), tail),
                           "append", 0, to, newContent)

\* The first of blocks, from the k-th on, that holds namePattern: its
\* index, or 0.
RECURSIVE FirstBlockContaining(_, _, _, _)
FirstBlockContaining(content, blocks, namePattern, k) ==
    IF k > Len(blocks) THEN 0
    ELSE IF Contains(SubSeq(content, blocks[k].from, blocks[k].to), namePattern)
    THEN k
    ELSE FirstBlockContaining(content, blocks, namePattern, k + 1)

\* publish, given the flags as manifestPatch (with -version written out in
\* four parts, so that padVersion leaves it as it is), the modlinks file's
\* content, the answer of the mod file's server and what the disk refuses.
publish(content, manifestPatch, resp, disk) ==
    LET url   == manifestPatch.Link.URL
        name  == IF manifestPatch.Name = <<>> THEN TrimSuffix(Base(url), Ext(url))
                 ELSE manifestPatch.Name
        sha   == sha256OfURL(resp)
        patch == [manifestPatch EXCEPT !.Name = name,
                                       !.Link = [SHA256 |-> sha.value, URL |-> url]]
        blocks == FindAllBlocks(content, 1)
        k      == FirstBlockContaining(content, blocks, NamePattern(name), 1)
    IN  IF url = <<>>
        THEN PublishResult("no mod file URL specified", content, "none", 0, 0, <<>>)
        ELSE IF name = <<>>
        THEN PublishResult("name could not be determined", content, "none", 0, 0, <<>>)
        ELSE IF sha.err # "nil"
        THEN PublishResult(sha.err, content, "none", 0, 0, <<>>)
        ELSE IF disk \in {"open", "read"}
        THEN PublishResult(disk, content, "none", 0, 0, <<>>)
        ELSE IF k # 0
        THEN publishUpdate(content, patch, disk, blocks[k].from, blocks[k].to)
        ELSE IF blocks = <<>>
        THEN PublishResult("cannot find insertion point", content, "none", 0, 0, <<>>)
        ELSE publishAppend(content, patch, disk, blocks[Len(blocks)].to)


(***************************************************************************)
(* SpecPublish: publish is run on a modlinks file.                         *)
(***************************************************************************)

NameX == <<"x">>

NameXY == <<"x", "y">>

NameAmp == <<"a", "&", "b">>

UrlXZip == <<"u", "/", "x", ".", "z", "i", "p">>

UrlDotZip == <<"u", "/", ".", "z", "i", "p">>

PublishManifest(name, desc, deps) ==
    [Name |-> name, Description |-> desc, Version |-> "1.0.0.0",
     Link |-> [SHA256 |-> HashOfOne, URL |-> UrlAZip],
     OSLinks |-> NilOSLinks, Dependencies |-> deps, Repository |-> ""]

\* A record as EncodeManifest writes it, from its start tag on.
Block(m) == TrimLeftSpaces(EncodeManifest(m))

\* The record x with a description and two dependencies.
BlockX == Block(PublishManifest(NameX, "old text", Slice(<<<<"w">>, <<"v">>>>)))

\* The record x as a hand writes it, on one line.
BlockXCompact ==
    <<"<Manifest>", "<Name>", "x", "</Name>", "<Link SHA256=\"", "0", "9",
      "\">", "u", "</Link>", "</Manifest>">>

\* The record xy, which names x in its description and its dependencies.
BlockXY == Block(PublishManifest(NameXY, "x", Slice(<<NameX>>)))

\* The record w, which depends on x.
BlockW == Block(PublishManifest(<<"w">>, "", Slice(<<NameX>>)))

\* A record x whose Version element never ends.
BlockBroken ==
    <<"<Manifest>", "\n", "<Name>", "x", "</Name>", "\n", "<Version>",
      "</Manifest>">>

\* The record a&b, with per-platform links.
BlockAmp ==
    Block([PublishManifest(NameAmp, "", NilSlice) EXCEPT !.OSLinks = OldPlatformSet])

BlockPool == {BlockX, BlockXCompact, BlockXY, BlockW, BlockBroken, BlockAmp}

\* What EncodeManifest writes, ParseManifest reads back.
RoundTrip(m) == ParseManifest(Block(m)) = [ok |-> TRUE, m |-> m]

RECURSIVE Document(_)
Document(blocks) ==
    IF blocks = <<>> THEN <<"</ModLinks>", "\n">>
    ELSE <<"    ">> \o Head(blocks) \o <<"\n">> \o Document(Tail(blocks))

\* The modlinks files: a root element around up to MaxBlocks records.
Documents ==
    { <<"<ModLinks>", "\n">> \o Document(blocks) :
      blocks \in SeqsUpTo(BlockPool, MaxBlocks) }

\* The flags of publish: -name and -url, -desc, -deps.
PublishFlags ==
    { [Name |-> nu[1], Description |-> d, Version |-> "2.0.0.0",
       Link |-> [SHA256 |-> <<>>, URL |-> nu[2]],
       OSLinks |-> NilOSLinks, Dependencies |-> DependenciesFlag(f),
       Repository |-> ""] :
      nu \in { <<NameX, UrlAZip>>, <<<<>>, UrlXZip>>, <<<<>>, <<>>>>,
               <<<<>>, UrlDotZip>>, <<NameAmp, UrlAZip>>, <<<<"y">>, UrlAZip>> },
      d \in {"", "new text"},
      f \in {<<>>, <<"n", "o", "n", "e">>, <<"w">>} }

\* What the mod file's server answers.
PublishAnswers ==
    { a \in Answers : a.getErr \/ (a.status \in {200, 404} /\ a.body = <<1>>) }

PublishStart(content) ==
    [pc |-> "call", content |-> content,
     patch |-> PublishManifest(<<>>, "", NilSlice),
     resp |-> CHOOSE a \in Answers : a.getErr, disk |-> "ok",
     err |-> "nil", file |-> content, path |-> "none", from |-> 0, to |-> 0,
     newContent |-> <<>>]

InitPublish ==
    /\ \E content \in Documents : pub = PublishStart(content)
    /\ LibIdle /\ inst = Idle /\ tree = Idle
    /\ names = <<>> /\ requestedName = <<>> /\ resolved = Pending
    /\ goos = "linux"
    /\ cache = [p \in CachePaths |-> AbsentFile]
    /\ last = NoCall
    /\ intact = [p \in CachePaths |-> NoMod]

\* colophon publish
Publish ==
    /\ pub.pc = "call"
    /\ \E patch \in PublishFlags, resp \in PublishAnswers, disk \in DiskFailures :
           LET r == publish(pub.content, patch, resp, disk)
           IN  pub' = [pc |-> "done", content |-> pub.content, patch |-> patch,
                       resp |-> resp, disk |-> disk, err |-> r.err,
                       file |-> r.file, path |-> r.path, from |-> r.from,
                       to |-> r.to, newContent |-> r.newContent]
    /\ UNCHANGED <<names, requestedName, resolved, goos, cache, last, intact,
                   libVars, inst, tree>>

NextPublish == Publish

SpecPublish == InitPublish /\ [][NextPublish]_vars


(***************************************************************************)
(* The contract of publish                                                 *)
(***************************************************************************)

PublishDone == pub.pc = "done"

PublishUpdated == PublishDone /\ pub.path = "update" /\ pub.err = "nil"

BeforeSpan == SubSeq(pub.content, 1, pub.from - 1)

AfterSpan == SubSeq(pub.content, pub.to + 1, Len(pub.content))

\* C21: when publish updates an existing record, the resulting document is
\* the original bytes before the target span, then the new serialized
\* record, then the original bytes after the span; every byte outside the
\* span is as it was, whether the new record is shorter or longer than the
\* old one.
C21_UpdateSplices ==
    PublishUpdated =>
        /\ pub.content[pub.from] = "<Manifest>"
        /\ pub.content[pub.to] = "</Manifest>"
        /\ ParseManifest(pub.newContent).ok
        /\ ParseManifest(pub.newContent).m.Version = pub.patch.Version
        /\ pub.file = BeforeSpan \o pub.newContent \o AfterSpan
        /\ Len(pub.file) = Len(BeforeSpan) + Len(pub.newContent) + Len(AfterSpan)

\* A record was replaced by a shorter one, with bytes after it.
C21_Witness ==
    /\ PublishUpdated
    /\ Len(pub.newContent) < pub.to - pub.from + 1
    /\ AfterSpan # <<>>
    /\ BeforeSpan # <<>>

\* A record was replaced by a longer one.
UpdatedToLonger ==
    /\ PublishUpdated
    /\ Len(pub.newContent) > pub.to - pub.from + 1


\* The name publish looks for: -name, or the one the URL gives.
PublishTarget ==
    IF pub.patch.Name = <<>>
    THEN TrimSuffix(Base(pub.patch.Link.URL), Ext(pub.patch.Link.URL))
    ELSE pub.patch.Name

\* The record spans of the document before and after the call.
SpansBefore == FindAllBlocks(pub.content, 1)

SpansAfter == FindAllBlocks(pub.file, 1)

SpanBytes(bytes, span) == SubSeq(bytes, span.from, span.to)

\* The span holds a Name element whose text is name.
HoldsName(bytes, span, name) ==
    \E i \in span.from..(span.to - Len(name) - 1) :
        /\ bytes[i] = "<Name>"
        /\ bytes[i + Len(name) + 1] = "</Name>"
        /\ SubSeq(bytes, i + 1, i + Len(name)) = name

\* The first of spans, from the k-th on, that holds the Name element of
\* name (0 when there is none).
RECURSIVE FirstHolding(_, _, _, _)
FirstHolding(bytes, spans, name, k) ==
    IF k > Len(spans) THEN 0
    ELSE IF HoldsName(bytes, spans[k], name) THEN k
    ELSE FirstHolding(bytes, spans, name, k + 1)

MatchedSpan == FirstHolding(pub.content, SpansBefore, PublishTarget, 1)

MatchedSpanUnparsable ==
    LET spans == SpansBefore
        k     == FirstHolding(pub.content, spans, PublishTarget, 1)
    IN  /\ k # 0
        /\ ~ParseManifest(SpanBytes(pub.content, spans[k])).ok

NoSpanHoldsTarget ==
    LET spans == SpansBefore
    IN  \A k \in DOMAIN spans : ~HoldsName(pub.content, spans[k], PublishTarget)

\* C22: when no record span of the document contains the target name and
\* at least one span exists, publish inserts the serialized patch record
\* immediately after the end of the last span; all original bytes stay in
\* their order, the existing records keep their relative order and the
\* new record comes after all of them.
C22_AppendAfterLastSpan ==
    (PublishDone /\ pub.err = "nil" /\ SpansBefore # <<>> /\ NoSpanHoldsTarget) =>
        LET before == SpansBefore
            after  == SpansAfter
            end    == before[Len(before)].to
            added  == after[Len(after)]
            m      == ParseManifest(SpanBytes(pub.file, added))
        IN  /\ pub.path = "append"
            /\ pub.file = SubSeq(pub.content, 1, end) \o pub.newContent
                              \o SubSeq(pub.content, end + 1, Len(pub.content))
            /\ Head(pub.newContent) = "\n"
            /\ Len(after) = Len(before) + 1
            /\ \A k \in DOMAIN before :
                   /\ after[k] = before[k]
                   /\ SpanBytes(pub.file, after[k]) = SpanBytes(pub.content, before[k])
            /\ added.from > end /\ added.to = end + Len(pub.newContent)
            /\ m.ok
            /\ m.m.Name = PublishTarget
            /\ m.m.Version = pub.patch.Version
            /\ m.m.Link.URL = pub.patch.Link.URL
            /\ m.m.Dependencies.list = pub.patch.Dependencies.list

\* x was published into a document of two records that name x only in a
\* longer name, a description and their dependencies.
C22_Witness ==
    /\ PublishDone /\ pub.err = "nil" /\ pub.path = "append"
    /\ PublishTarget = NameX
    /\ Len(SpansBefore) = 2
    /\ Contains(pub.content, <<"<Dependency>", "x", "</Dependency>">>)
    /\ Contains(pub.content, <<"<Name>", "x", "y", "</Name>">>)
    /\ pub.patch.Dependencies.list # <<>>


HashNotFetched == pub.resp.getErr \/ ~isHTTPOK(pub.resp.status) \/ pub.resp.broken

\* C23: publish fails without writing a byte when the document holds no
\* record span, when the matched span cannot be parsed as a record, or when
\* the mod file's URL cannot be fetched for hashing; the document is then
\* byte for byte what it was before the call.
C23_FailsWithoutWriting ==
    (PublishDone /\ (HashNotFetched \/ SpansBefore = <<>> \/ MatchedSpanUnparsable)) =>
        /\ pub.err # "nil"
        /\ pub.file = pub.content

\* The span that holds the target's name could not be parsed, in a
\* document with another record after it, on a disk that refuses nothing.
C23_Witness ==
    /\ PublishDone /\ pub.err = "xml" /\ MatchedSpanUnparsable
    /\ ~HashNotFetched /\ pub.disk = "ok"
    /\ Len(SpansBefore) = 2 /\ MatchedSpan = 1

\* The document held no record span, the hash being fetched.
FailedForNoSpan ==
    /\ PublishDone /\ pub.err = "cannot find insertion point"
    /\ SpansBefore = <<>> /\ ~HashNotFetched /\ pub.disk = "ok"

\* The hash could not be fetched for a document that holds the record.
FailedForHash ==
    /\ PublishDone /\ HashNotFetched /\ pub.err \in {"http.Get", "response status", "Copy"}
    /\ MatchedSpan # 0 /\ pub.disk = "ok"


\* C28: publish rewrites at most one record span, the first in document
\* order that contains a Name element whose text is exactly the target
\* name; a span that mentions the name only as a Dependency, in the
\* description or inside a longer Name is not selected, and later spans
\* with the same Name stay as they are.
C28_FirstExactNameOnly ==
    (PublishDone /\ pub.err = "nil") =>
        LET before == SpansBefore
            after  == SpansAfter
            k      == FirstHolding(pub.content, before, PublishTarget, 1)
        IN  /\ \A j \in DOMAIN before :
                   j # k => SpanBytes(pub.file, after[j]) = SpanBytes(pub.content, before[j])
            /\ k = 0 => pub.path = "append"
            /\ k # 0 =>
                   /\ pub.path = "update"
                   /\ pub.from = before[k].from /\ pub.to = before[k].to
                   /\ Len(after) = Len(before)
                   /\ SpanBytes(pub.file, after[k]) = pub.newContent
                   /\ ParseManifest(pub.newContent).m.Name = PublishTarget

\* x was published into a document whose first record is xy, with x in its
\* description and dependencies, and whose second record is x.
C28_Witness ==
    /\ PublishDone /\ pub.err = "nil" /\ pub.path = "update"
    /\ PublishTarget = NameX
    /\ Len(SpansBefore) = 2
    /\ SpanBytes(pub.content, SpansBefore[1]) = BlockXY
    /\ MatchedSpan = 2

\* x was published into a document with two records x.
LaterSameNameKept ==
    /\ PublishDone /\ pub.err = "nil" /\ pub.path = "update"
    /\ Len(SpansBefore) = 2 /\ MatchedSpan = 1
    /\ HoldsName(pub.content, SpansBefore[2], PublishTarget)
    /\ SpanBytes(pub.file, SpansAfter[2]) = SpanBytes(pub.content, SpansBefore[2])

\* a&b was published into a document that holds the record a&b, whose name
\* is written a&amp;b there.
EscapedNameNotMatched ==
    /\ PublishDone /\ pub.err = "nil" /\ pub.path = "append"
    /\ PublishTarget = NameAmp
    /\ \E k \in DOMAIN SpansBefore :
           LET m == ParseManifest(SpanBytes(pub.content, SpansBefore[k]))
           IN  m.ok /\ m.m.Name = NameAmp


(***************************************************************************)
(* The Mods directory as a tree of files.  A path is the sequence of its   *)
(* elements below the install directory (".." elements at its head lead    *)
(* above it); the tree is the set of its entries, each a path that is a    *)
(* directory or a file.                                                    *)
(***************************************************************************)
MaxEntries == 2

\* os.IsPathSeparator of the build.
PathSeparators == IF goos = "windows" THEN {"/", "\\"} ELSE {"/"}

\* The elements of a path, between its separators.
RECURSIVE Elements(_, _)
Elements(s, piece) ==
    IF s = <<>> THEN <<piece>>
    ELSE IF Head(s) \in PathSeparators THEN <<piece>> \o Elements(Tail(s), <<>>)
    ELSE Elements(Tail(s), Append(piece, Head(s)))

DotDot == <<".", ".">>

\* filepath.Clean on the elements of a path: empty and "." elements go, a
\* ".." takes the element before it with it; at the root a ".." goes too.
RECURSIVE Clean(_, _, _)
Clean(parts, out, rooted) ==
    IF parts = <<>> THEN out
    ELSE LET c == Head(parts)
         IN  IF c = <<>> \/ c = <<".">> THEN Clean(Tail(parts), out, rooted)
             ELSE IF c # DotDot THEN Clean(Tail(parts), Append(out, c), rooted)
             ELSE IF out # <<>> /\ out[Len(out)] # DotDot
             THEN Clean(Tail(parts), SubSeq(out, 1, Len(out) - 1), rooted)
             ELSE IF rooted THEN Clean(Tail(parts), out, rooted)
             ELSE Clean(Tail(parts), Append(out, c), rooted)

\* filepath.FromSlash
FromSlash(s) == [k \in DOMAIN s |-> IF s[k] = "/" THEN Separator ELSE s[k]]

ModsElement == <<"M", "o", "d", "s">>

\* filepath.Join(installdir, "Mods", name)
ModDir(name) == Clean(<<ModsElement>> \o Elements(name, <<>>), <<>>, FALSE)

\* filepath.Join(installdir, "Mods", name, filename)
FileDest(name, filename) ==
    Clean(<<ModsElement>> \o Elements(name, <<>>) \o Elements(filename, <<>>),
          <<>>, FALSE)

\* filepath.Join(installdir, "Mods", name,
\*     filepath.Join(string(filepath.Separator), filepath.FromSlash(file.Name)))
EntryDest(name, entryName) ==
    Clean(<<ModsElement>> \o Elements(name, <<>>)
              \o Clean(Elements(FromSlash(entryName), <<>>), <<>>, TRUE),
          <<>>, FALSE)

Dir(path) == SubSeq(path, 1, Len(path) - 1)

Under(path, dir) == Len(path) >= Len(dir) /\ SubSeq(path, 1, Len(dir)) = dir

DirEntry(path) == [path |-> path, isDir |-> TRUE]

FileEntry(path) == [path |-> path, isDir |-> FALSE]

\* os.MkdirAll(path): fails when an element of the path is a file.
MkdirAll(fs, path) ==
    IF \E k \in 1..Len(path) : FileEntry(SubSeq(path, 1, k)) \in fs
    THEN [err |-> "MkdirAll", fs |-> fs]
    ELSE [err |-> "nil",
          fs |-> fs \cup { DirEntry(SubSeq(path, 1, k)) : k \in 1..Len(path) }]

\* os.Create(path): fails on a directory.
Create(fs, path) ==
    IF DirEntry(path) \in fs \/ path = <<>> THEN [err |-> "Create", fs |-> fs]
    ELSE [err |-> "nil", fs |-> fs \cup {FileEntry(path)}]

\* os.RemoveAll(path)
RemoveAll(fs, path) == { e \in fs : ~Under(e.path, path) }

customKnightName ==
    <<"C", "u", "s", "t", "o", "m", " ", "K", "n", "i", "g", "h", "t">>

DLLExt == <<".", "d", "l", "l">>

\* removePreviousDLLs: the entries of the mod's directory that are no
\* directories and end in .dll are removed; a Remove the disk refuses
\* gives a warning and no error.
removePreviousDLLs(fs, name, disk) ==
    LET moddir == ModDir(name)
    IN  IF DirEntry(moddir) \notin fs
        THEN [err |-> IF FileEntry(moddir) \in fs THEN "ReadDir" ELSE "nil", fs |-> fs]
        ELSE [err |-> "nil",
              fs  |-> IF disk = "removeErr" THEN fs
                      ELSE { e \in fs :
                               ~(/\ Dir(e.path) = moddir /\ e.path # moddir
                                 /\ ~e.isDir
                                 /\ Ext(e.path[Len(e.path)]) = DLLExt) }]

\* Every mod's directory is removed whole.
removePreviousVersionWhole(fs, name, disk) ==
    IF disk = "removeErr" THEN [err |-> "yeet installed version", fs |-> fs]
    ELSE [err |-> "nil", fs |-> RemoveAll(fs, ModDir(name))]

\* removePreviousVersion on the tree; a RemoveAll the disk refuses removes
\* nothing.
removePreviousVersionTree(fs, name, disk) ==
    IF name = customKnightName THEN removePreviousDLLs(fs, name, disk)
    ELSE IF disk = "removeErr" THEN [err |-> "yeet installed version", fs |-> fs]
    ELSE [err |-> "nil", fs |-> RemoveAll(fs, ModDir(name))]

\* strings.HasSuffix(file.Name, "/")
IsDirectoryEntry(entryName) == entryName # <<>> /\ entryName[Len(entryName)] = "/"

\* writeZipFile(dest, file)
writeZipFile(fs, dest) ==
    LET made == MkdirAll(fs, Dir(dest))
    IN  IF made.err # "nil" THEN made ELSE Create(made.fs, dest)

\* extractModZip's loop over the files of the archive.
RECURSIVE extractModZip(_, _, _)
extractModZip(fs, entries, name) ==
    IF entries = <<>> THEN [err |-> "nil", fs |-> fs]
    ELSE LET dest == EntryDest(name, Head(entries))
             r    == IF IsDirectoryEntry(Head(entries)) THEN MkdirAll(fs, dest)
                     ELSE writeZipFile(fs, dest)
         IN  IF r.err # "nil" THEN [err |-> "extract mod", fs |-> r.fs]
             ELSE extractModZip(r.fs, Tail(entries), name)

\* extractModDLL(file, filename, modname, installdir)
extractModDLL(fs, filename, name) ==
    LET dest == FileDest(name, filename)
        made == MkdirAll(fs, Dir(dest))
        r    == IF made.err # "nil" THEN made ELSE Create(made.fs, dest)
    IN  IF r.err # "nil" THEN [err |-> "extract mod", fs |-> r.fs] ELSE r

TreeResult(err, fs, got, removed, cleared) ==
    [err |-> err, fs |-> fs, fetched |-> got, removed |-> removed,
     cleared |-> cleared]

\* The body of install's loop over the downloads on the tree, for a record
\* named name whose file (payload) getModFile delivers: an archive that
\* the zip reader accepts or refuses, or a single file named filename, the
\* base of the record's URL.  A result tells whether the record went as
\* far as getModFile (fetched), whether removePreviousVersion returned nil
\* (removed) and what the tree was when it returned (cleared).
installTree(fs, name, payload, disk) ==
    IF ContainsRune(name, Separator)
    THEN TreeResult("contains path separator", fs, FALSE, FALSE, fs)
    ELSE IF ContainsRune(payload.filename, Separator)
    THEN TreeResult("filename contains path separator", fs, FALSE, FALSE, fs)
    ELSE LET rm == removePreviousVersionTree(fs, name, disk)
         IN  IF rm.err # "nil" THEN TreeResult(rm.err, rm.fs, TRUE, FALSE, rm.fs)
             ELSE IF ~payload.IsZIP
             THEN LET x == extractModDLL(rm.fs, payload.filename, name)
                  IN  TreeResult(x.err, x.fs, TRUE, TRUE, rm.fs)
             ELSE IF payload.refused
             THEN TreeResult("extract mod", rm.fs, TRUE, TRUE, rm.fs)
             ELSE LET x == extractModZip(rm.fs, payload.entries, name)
                  IN  TreeResult(x.err, x.fs, TRUE, TRUE, rm.fs)

\* strings.EqualFold(strings.TrimSpace(e.Name()), "Disabled")
IsDisabledName(n) ==
    [k \in DOMAIN TrimSpace(n) |-> ToLower(TrimSpace(n)[k])]
        = <<"d", "i", "s", "a", "b", "l", "e", "d">>

\* installedMods(modsdir): the directories of Mods but Disabled, in any
\* order.
installedMods(fs) ==
    IF DirEntry(<<ModsElement>>) \notin fs THEN {}
    ELSE Orderings({ e.path[2] : e \in { d \in fs : /\ d.isDir /\ Len(d.path) = 2
                                                    /\ d.path[1] = ModsElement
                                                    /\ ~IsDisabledName(d.path[2]) } })

\* The loop over yeet's arguments: the names to delete.
RECURSIVE modsToDelete(_, _)
modsToDelete(mods, args) ==
    IF args = <<>> THEN {}
    ELSE LET r == resolveModName(mods, Head(args))
         IN  (IF r.kind = "name" THEN {r.name} ELSE {}) \cup modsToDelete(mods, Tail(args))

\* The loop over the names to delete.
RECURSIVE yeetAll(_, _, _)
yeetAll(fs, todo, disk) ==
    IF todo = {} THEN fs
    ELSE LET mod == CHOOSE m \in todo : TRUE
         IN  yeetAll(removePreviousVersionTree(fs, mod, disk).fs, todo \ {mod}, disk)

\* yeet(args): the trees it can leave and the names it took up.
yeet(fs, args, disk) ==
    IF installedMods(fs) = {}
    THEN {[err |-> "list installed mods", fs |-> fs, deleted |-> {}]}
    ELSE { [err |-> "nil", deleted |-> modsToDelete(mods, args),
            fs |-> yeetAll(fs, modsToDelete(mods, args), disk)] :
           mods \in installedMods(fs) }


(***************************************************************************)
(* SpecModsDir: one install of a fetched file, or one yeet, on a Mods      *)
(* directory.                                                              *)
(***************************************************************************)

PaleName == <<"P", "a", "l", "e">>

NewName == <<"N", "e", "w">>

\* Names that lead elsewhere when taken as paths.
SlashName == <<".", ".", "/", "P", "a", "l", "e">>

BackslashName == <<".", ".", "\\", "P", "a", "l", "e">>

TreeNames == {customKnightName, PaleName, NewName, SlashName, BackslashName}

CKDir == <<ModsElement, customKnightName>>

PaleDir == <<ModsElement, PaleName>>

SkinsElement == <<"s", "k", "i", "n", "s">>

LibraryElement == <<"c", "k", ".", "d", "l", "l">>

\* Custom Knight with its library, its skins, a directory whose name ends
\* in .dll and a library one level down; Pale; a disabled mod; a file of
\* the game next to Mods.
InstalledTree ==
    { DirEntry(<<ModsElement>>),
      DirEntry(CKDir),
      FileEntry(CKDir \o <<LibraryElement>>),
      FileEntry(CKDir \o <<<<"r", ".", "t", "x", "t">>>>),
      DirEntry(CKDir \o <<SkinsElement>>),
      FileEntry(CKDir \o <<SkinsElement, <<"s", ".", "p", "n", "g">>>>),
      FileEntry(CKDir \o <<SkinsElement, <<"d", ".", "d", "l", "l">>>>),
      DirEntry(CKDir \o <<<<"x", ".", "d", "l", "l">>>>),
      DirEntry(PaleDir),
      FileEntry(PaleDir \o <<<<"p", ".", "d", "l", "l">>>>),
      DirEntry(PaleDir \o <<<<"d", "a", "t", "a">>>>),
      DirEntry(<<ModsElement, <<"D", "i", "s", "a", "b", "l", "e", "d">>>>),
      FileEntry(<<<<"g", "a", "m", "e">>>>) }

\* Mods without a mod in it.
FreshTree == { DirEntry(<<ModsElement>>), FileEntry(<<<<"g", "a", "m", "e">>>>) }

Trees == {InstalledTree, FreshTree}

\* The names of the files of an archive: a library, a file in a directory,
\* a directory, and names that lead upwards or start at the root.
EntryNames ==
    { <<"n", ".", "d", "l", "l">>,
      <<"s", "k", "i", "n", "s", "/", "n">>,
      <<"d", "/">>,
      <<".", ".", "/", ".", ".", "/", "e">>,
      <<"/", "e">>,
      <<".", ".", "\\", ".", ".", "\\", "w">> }

\* What getModFile delivers.
Payloads ==
    { [IsZIP |-> TRUE, refused |-> k, entries |-> e, filename |-> <<"m", ".", "z", "i", "p">>] :
      k \in BOOLEAN, e \in SeqsUpTo(EntryNames, MaxEntries) }
    \cup { [IsZIP |-> FALSE, refused |-> FALSE, entries |-> <<>>, filename |-> LibraryElement] }

YeetRequests ==
    { <<"c", "u", "s", "t">>, <<"p", "a", "l", "e">>, <<"z">>, <<"a">> }

TreeStart(fs) ==
    [pc |-> "call", op |-> "none", name |-> <<>>, args |-> <<>>,
     payload |-> CHOOSE f \in Payloads : ~f.IsZIP, disk |-> "ok",
     before |-> fs, fs |-> fs, err |-> "nil", fetched |-> FALSE,
     removed |-> FALSE, cleared |-> fs, deleted |-> {}]

InitModsDir ==
    /\ \E fs \in Trees : tree = TreeStart(fs)
    /\ goos \in {"linux", "windows"}
    /\ LibIdle /\ inst = Idle /\ pub = Idle
    /\ names = <<>> /\ requestedName = <<>> /\ resolved = Pending
    /\ cache = [p \in CachePaths |-> AbsentFile]
    /\ last = NoCall
    /\ intact = [p \in CachePaths |-> NoMod]

modsDirOthers ==
    <<names, requestedName, resolved, goos, cache, last, intact, libVars, inst, pub>>

\* install takes up one record of its downloads.
ModsInstall ==
    /\ tree.pc = "call"
    /\ \E name \in TreeNames, payload \in Payloads, disk \in {"ok", "removeErr"} :
           LET r == installTree(tree.fs, name, payload, disk)
           IN  tree' = [tree EXCEPT !.pc = "done", !.op = "install", !.name = name,
                                    !.payload = payload, !.disk = disk,
                                    !.fs = r.fs, !.err = r.err,
                                    !.fetched = r.fetched, !.removed = r.removed,
                                    !.cleared = r.cleared]
    /\ UNCHANGED modsDirOthers

\* colophon yeet args
ModsYeet ==
    /\ tree.pc = "call"
    /\ \E args \in SeqsUpTo(YeetRequests, MaxArgs), disk \in {"ok", "removeErr"} :
           \E r \in yeet(tree.fs, args, disk) :
               tree' = [tree EXCEPT !.pc = "done", !.op = "yeet", !.args = args,
                                    !.disk = disk, !.fs = r.fs, !.err = r.err,
                                    !.deleted = r.deleted]
    /\ UNCHANGED modsDirOthers

NextModsDir == ModsInstall \/ ModsYeet

SpecModsDir == InitModsDir /\ [][NextModsDir]_vars


(***************************************************************************)
(* What install and yeet promise about the Mods directory                  *)
(***************************************************************************)

Yeeted(name) ==
    /\ tree.pc = "done" /\ tree.op = "yeet" /\ tree.err = "nil"
    /\ tree.disk = "ok" /\ name \in tree.deleted

\* What is in the tree at or below dir.
Below(fs, dir) == { e \in fs : Under(e.path, dir) }

\* The entries directly inside dir that are no directories and end in .dll.
LibrariesIn(fs, dir) ==
    { e \in fs : /\ Len(e.path) = Len(dir) + 1 /\ Under(e.path, dir)
                 /\ ~e.isDir
                 /\ Len(e.path[Len(e.path)]) >= 4
                 /\ SubSeq(e.path[Len(e.path)], Len(e.path[Len(e.path)]) - 3,
                           Len(e.path[Len(e.path)])) = DLLExt }

\* C24: yeet gives Custom Knight no special treatment: yeeting it removes
\* the whole directory of the mod, installed skins included, as for any
\* other mod.
C24_YeetRemovesCustomKnightWhole ==
    \A name \in tree.deleted :
        Yeeted(name) => Below(tree.fs, <<ModsElement, name>>) = {}

\* The same, for the mods other than Custom Knight.
C24_YeetRemovesOthersWhole ==
    \A name \in tree.deleted \ {customKnightName} :
        Yeeted(name) => Below(tree.fs, <<ModsElement, name>>) = {}

\* What yeet does to Custom Knight: its libraries go, everything else of
\* it stays.
C24_YeetKeepsSkins ==
    Yeeted(customKnightName) =>
        Below(tree.fs, CKDir) = Below(tree.before, CKDir) \ LibrariesIn(tree.before, CKDir)

\* Custom Knight was yeeted with skins installed.
YeetedCustomKnight ==
    /\ Yeeted(customKnightName)
    /\ FileEntry(CKDir \o <<SkinsElement, <<"s", ".", "p", "n", "g">>>>) \in tree.before

\* Pale was yeeted.
YeetedPale == Yeeted(PaleName) /\ Below(tree.before, PaleDir) # {}

Installed ==
    tree.pc = "done" /\ tree.op = "install" /\ tree.fetched

\* C25: installing a mod other than Custom Knight removes the directory it
\* had whole before anything is extracted; installing Custom Knight
\* removes only the entries directly inside its directory that are no
\* directories and end in .dll, and leaves every other file and
\* sub-directory; the directories of other mods are not touched.
C25_RemovalBeforeExtraction ==
    Installed =>
        LET moddir == ModDir(tree.name)
        IN  /\ tree.removed /\ tree.name # customKnightName =>
                   tree.cleared = tree.before \ Below(tree.before, moddir)
            /\ tree.name = customKnightName =>
                   /\ tree.before \ tree.cleared \subseteq LibrariesIn(tree.before, moddir)
                   /\ tree.cleared \subseteq tree.before
                   /\ tree.disk = "ok" =>
                          tree.cleared = tree.before \ LibrariesIn(tree.before, moddir)
                   /\ tree.before \ LibrariesIn(tree.before, moddir) \subseteq tree.fs
            /\ tree.before \ Below(tree.before, moddir) \subseteq tree.fs
            /\ ~tree.removed => tree.fs = tree.cleared

\* Custom Knight was installed over its earlier version from an archive
\* with a library and a skin: the old library is gone, the skins, the
\* directory x.dll and the library inside skins are there.
C25_Witness ==
    /\ Installed /\ tree.removed /\ tree.err = "nil" /\ tree.disk = "ok"
    /\ tree.name = customKnightName /\ tree.before = InstalledTree
    /\ FileEntry(CKDir \o <<LibraryElement>>) \notin tree.fs
    /\ FileEntry(CKDir \o <<<<"n", ".", "d", "l", "l">>>>) \in tree.fs
    /\ FileEntry(CKDir \o <<SkinsElement, <<"n">>>>) \in tree.fs
    /\ FileEntry(CKDir \o <<SkinsElement, <<"d", ".", "d", "l", "l">>>>) \in tree.fs
    /\ DirEntry(CKDir \o <<<<"x", ".", "d", "l", "l">>>>) \in tree.fs

\* Pale was installed over its earlier version.
ReplacedPale ==
    /\ Installed /\ tree.removed /\ tree.err = "nil"
    /\ tree.name = PaleName /\ tree.before = InstalledTree
    /\ DirEntry(PaleDir \o <<<<"d", "a", "t", "a">>>>) \notin tree.fs
    /\ FileEntry(PaleDir \o <<LibraryElement>>) \in tree.fs

\* Whatever the install made is at or below the mod's directory.
MadeInside ==
    \A e \in tree.fs \ tree.before : Under(e.path, ModDir(tree.name))

\* C26: for every archive entry path, paths with ".." elements and
\* absolute paths included, extractModZip writes only inside
\* <installdir>/Mods/<name>: no file or directory is made outside it; and
\* install never fetches or installs a record whose name contains a path
\* separator.
C26_NothingOutsideAndNoSeparator ==
    (tree.pc = "done" /\ tree.op = "install") =>
        /\ MadeInside
        /\ (\E k \in DOMAIN tree.name : tree.name[k] \in PathSeparators) =>
               ~tree.fetched /\ tree.fs = tree.before

\* The same, for what the archive's entries make.
C26_EntriesStayInside ==
    (tree.pc = "done" /\ tree.op = "install") => MadeInside

\* The same, for the names that contain filepath.Separator.
C26_SeparatorOfTheBuild ==
    (tree.pc = "done" /\ tree.op = "install"
        /\ \E k \in DOMAIN tree.name : tree.name[k] = Separator) =>
        ~tree.fetched /\ tree.fs = tree.before

\* An archive with the entries ../../e and /e was extracted: there is a
\* file e in the mod's directory.
ExtractedUpwardEntries ==
    /\ Installed /\ tree.err = "nil" /\ tree.name = NewName
    /\ tree.payload.entries = << <<".", ".", "/", ".", ".", "/", "e">>, <<"/", "e">> >>
    /\ FileEntry(<<ModsElement, NewName, <<"e">>>>) \in tree.fs

\* On Windows a record named ../Pale was installed.
InstalledSlashName ==
    /\ Installed /\ tree.err = "nil" /\ tree.name = SlashName /\ goos = "windows"
    /\ tree.fs # tree.before

===========================================================================
